---------------------------- MODULE Spec2Model ----------------------------
(***************************************************************************)
(* A model of the zkIPFS-Proof core: the block store (ipfs.rs), the        *)
(* content extractor and proof generator (proof.rs), the proving guest     *)
(* (methods/guest/src/bin/ipfs_content_verifier.rs) and the proof verifier *)
(* (verifier.rs).                                                          *)
(*                                                                         *)
(* Bytes are integers.  SHA-256 is modelled by an injective code of its    *)
(* input (collision resistance is assumed, not checked): the digest of d   *)
(* is the length of d followed by d.  The array [0u8; 32] is ZeroHash, a   *)
(* value that is the digest of nothing.                                    *)
(***************************************************************************)
EXTENDS Integers, Sequences, FiniteSets, TLC

\* ------------------------------------------------------------------------
\* Bounds of the model
\* ------------------------------------------------------------------------
MaxFileLen == 4

MaxPos == 3

MaxGenLen == 3

MaxCalls == 1

MaxSkew == 1

\* instants are counted in ticks, TicksPerSecond to the second
TicksPerSecond == 2

MaxBatch == 2

Alphabet == {0, 1}

\* IpfsProcessor::new: max_block_size (256 KiB)
DefaultMaxBlockSize == 262144

\* the block sizes the processor is configured with (the tests set 10)
BlockSizes == {2, 3, DefaultMaxBlockSize}

\* ------------------------------------------------------------------------
\* Sequences of bytes
\* ------------------------------------------------------------------------
SeqsUpTo(S, n) == UNION {[1..k -> S] : k \in 0..n}

Min(a, b) == IF a < b THEN a ELSE b

\* Rust's s[a..b], 0-based and half-open
Slice(s, a, b) == SubSeq(s, a + 1, b)

RECURSIVE LeBytes(_, _)
LeBytes(n, width) ==
    IF width = 0 THEN <<>> ELSE <<n % 256>> \o LeBytes(n \div 256, width - 1)

\* (n as u64).to_le_bytes()
to_le_bytes(n) == LeBytes(n, 8)

\* Sha256::digest / Code::Sha2_256.digest
Sha256(data) == <<Len(data)>> \o data

ZeroHash == <<0 - 1>>

\* ------------------------------------------------------------------------
\* Block store (ipfs.rs)
\* ------------------------------------------------------------------------
\* Cid::new_v1(0x55, hash).to_bytes(): version, codec, multihash code 0x12,
\* digest length 0x20, digest
calculate_block_cid(data) == <<1, 85, 18, 32>> \o Sha256(data)

IpfsBlock(data, cid, links) == [data |-> data, cid |-> cid, links |-> links]

BlockLink(name, cid, size) == [name |-> name, cid |-> cid, size |-> size]

\* the chunk index i as it appears in format!("chunk_{}", i)
ChunkName(i) == <<"chunk_", i>>

RECURSIVE ChunkLoop(_, _, _, _)
ChunkLoop(content, max_block_size, offset, acc) ==
    IF offset < Len(content)
    THEN LET end == Min(offset + max_block_size, Len(content))
             block_data == Slice(content, offset, end)
             block == IpfsBlock(block_data, calculate_block_cid(block_data), <<>>)
         IN  ChunkLoop(content, max_block_size, end, Append(acc, block))
    ELSE acc

RECURSIVE RootData(_, _)
RootData(content_blocks, i) ==
    IF i > Len(content_blocks) THEN <<>>
    ELSE content_blocks[i].cid \o to_le_bytes(Len(content_blocks[i].data))
         \o RootData(content_blocks, i + 1)

create_root_block(content_blocks) ==
    LET links == [i \in 1..Len(content_blocks) |->
                    BlockLink(ChunkName(i - 1), content_blocks[i].cid,
                              Len(content_blocks[i].data))]
        root_data == RootData(content_blocks, 1)
    IN  IpfsBlock(root_data, calculate_block_cid(root_data), links)

\* create_blocks that makes a root block for a single chunk too
create_blocks_rooted(content, max_block_size) ==
    LET chunks == ChunkLoop(content, max_block_size, 0, <<>>)
    IN  IF Len(chunks) > 0 THEN <<create_root_block(chunks)>> \o chunks
        ELSE chunks

create_blocks(content, max_block_size) ==
    LET chunks == ChunkLoop(content, max_block_size, 0, <<>>)
    IN  IF Len(chunks) > 1 THEN <<create_root_block(chunks)>> \o chunks
        ELSE chunks

\* results of the fallible operations: Ok(bytes) or Err(kind, block index)
Ok(bytes) == [ok |-> TRUE, bytes |-> bytes, err |-> "", index |-> 0 - 1]

Err(kind, index) == [ok |-> FALSE, bytes |-> <<>>, err |-> kind, index |-> index]

RECURSIVE ConcatData(_, _)
ConcatData(blocks, i) ==
    IF i > Len(blocks) THEN <<>> ELSE blocks[i].data \o ConcatData(blocks, i + 1)

\* blocks.iter().map(|b| b.data.len()).sum()
RECURSIVE SumLen(_, _)
SumLen(blocks, i) ==
    IF i > Len(blocks) THEN 0 ELSE Len(blocks[i].data) + SumLen(blocks, i + 1)

TotalLenOf(blocks) == SumLen(blocks, 1)

\* blocks.iter().find(|b| b.cid == link.cid): index of the first match, 0 if none
FindByCid(blocks, cid) ==
    IF \E j \in 1..Len(blocks) : blocks[j].cid = cid
    THEN CHOOSE j \in 1..Len(blocks) :
            /\ blocks[j].cid = cid
            /\ \A k \in 1..(j - 1) : blocks[k].cid # cid
    ELSE 0

RECURSIVE LinkLoop(_, _, _, _)
LinkLoop(blocks, links, i, content) ==
    IF i > Len(links) THEN Ok(content)
    ELSE LET j == FindByCid(blocks, links[i].cid)
         IN  IF j = 0 THEN Err("content_reconstruction", i - 1)
             ELSE LinkLoop(blocks, links, i + 1, content \o blocks[j].data)

\* reconstruct_content without the link lookup: every block's data, in order
reconstruct_concatenating(blocks) == Ok(ConcatData(blocks, 1))

\* reconstruct_content that takes the blocks after the root as they come
reconstruct_in_set_order(blocks) ==
    IF Len(blocks) = 0 THEN Ok(<<>>)
    ELSE IF Len(blocks) = 1 THEN Ok(blocks[1].data)
    ELSE IF Len(blocks[1].links) = 0 THEN Ok(ConcatData(blocks, 1))
    ELSE Ok(ConcatData(blocks, 2))

reconstruct_content(blocks) ==
    IF Len(blocks) = 0 THEN Ok(<<>>)
    ELSE IF Len(blocks) = 1 THEN Ok(blocks[1].data)
    ELSE IF Len(blocks[1].links) = 0 THEN Ok(ConcatData(blocks, 1))
    ELSE LinkLoop(blocks, blocks[1].links, 1, <<>>)

\* "link_validation" when a link of the block has an empty name or an empty cid
BadLink(block) ==
    IF \E j \in 1..Len(block.links) :
            Len(block.links[j].name) = 0 \/ Len(block.links[j].cid) = 0
    THEN "link_validation"
    ELSE ""

\* Cid::try_from(bytes) succeeds: a version-1 CID with a SHA-256 multihash
CidParses(cid) ==
    /\ Len(cid) >= 5
    /\ SubSeq(cid, 1, 4) = <<1, 85, 18, 32>>
    /\ Len(cid) = 5 + cid[5]

RECURSIVE ValidateLoop(_, _)
ValidateLoop(blocks, i) ==
    IF i > Len(blocks) THEN Ok(<<>>)
    ELSE IF ~CidParses(blocks[i].cid) THEN Err("cid_parsing", i - 1)
    ELSE IF calculate_block_cid(blocks[i].data) # blocks[i].cid
         THEN Err("block_validation", i - 1)
    ELSE IF BadLink(blocks[i]) # "" THEN Err(BadLink(blocks[i]), i - 1)
    ELSE ValidateLoop(blocks, i + 1)

\* validate_blocks that stops after the first block
validate_first_block(blocks) ==
    IF Len(blocks) = 0 THEN Ok(<<>>) ELSE ValidateLoop(<<blocks[1]>>, 1)

validate_blocks(blocks) == ValidateLoop(blocks, 1)

\* ------------------------------------------------------------------------
\* Content selections (types.rs)
\* ------------------------------------------------------------------------
ByteRange(start, end) ==
    [type |-> "ByteRange", start |-> start, end |-> end, content |-> <<>>,
     members |-> <<>>]

Pattern(content) ==
    [type |-> "Pattern", start |-> 0, end |-> 0, content |-> content,
     members |-> <<>>]

Regex(pattern) ==
    [type |-> "Regex", start |-> 0, end |-> 0, content |-> pattern,
     members |-> <<>>]

Multiple(selections) ==
    [type |-> "Multiple", start |-> 0, end |-> 0, content |-> <<>>,
     members |-> selections]

\* is_valid that takes an empty range for valid
RECURSIVE is_valid_from_empty(_)
is_valid_from_empty(sel) ==
    CASE sel.type = "ByteRange" -> sel.start <= sel.end
      [] sel.type = "Pattern" -> Len(sel.content) # 0
      [] sel.type = "Regex" -> Len(sel.content) # 0
      [] sel.type = "Multiple" ->
            /\ Len(sel.members) # 0
            /\ \A i \in 1..Len(sel.members) : is_valid_from_empty(sel.members[i])

RECURSIVE is_valid(_)
is_valid(sel) ==
    CASE sel.type = "ByteRange" -> sel.start < sel.end
      [] sel.type = "Pattern" -> Len(sel.content) # 0
      [] sel.type = "Regex" -> Len(sel.content) # 0
      [] sel.type = "Multiple" ->
            /\ Len(sel.members) # 0
            /\ \A i \in 1..Len(sel.members) : is_valid(sel.members[i])

\* usize arithmetic: the build is "debug" (overflow checks on: the operation
\* panics) or "release" (checks off: the result wraps modulo 2^64).  A usize
\* is (value, wrapped); a wrapped value v < 0 stands for 2^64 + v.
Builds == {"debug", "release"}

Usize(outcome, value, wrapped) ==
    [outcome |-> outcome, value |-> value, wrapped |-> wrapped]

Panicked == Usize("panic", 0, FALSE)

\* a - b on usize
usize_sub(a, b, build) ==
    IF a >= b THEN Usize("some", a - b, FALSE)
    ELSE IF build = "debug" THEN Panicked
    ELSE Usize("some", a - b, TRUE)

\* a + b on usize, of values that may have wrapped already
usize_add(a, b, build) ==
    LET overflow == (a.wrapped /\ b.value > 0) \/ (b.wrapped /\ a.value > 0)
    IN  IF overflow /\ build = "debug" THEN Panicked
        ELSE Usize("some", a.value + b.value, a.wrapped \/ b.wrapped)

\* ContentSelection::estimated_size: Some(n), None, or a panic
RECURSIVE estimated_size(_, _)
RECURSIVE SumSizes(_, _, _, _)
\* Iterator::sum::<Option<usize>>() over the members' sizes: None at the first
\* None member
SumSizes(selections, i, acc, build) ==
    IF i > Len(selections) THEN acc
    ELSE LET size == estimated_size(selections[i], build)
         IN  IF size.outcome # "some" THEN size
             ELSE IF usize_add(acc, size, build).outcome = "panic" THEN Panicked
             ELSE SumSizes(selections, i + 1, usize_add(acc, size, build), build)

estimated_size(sel, build) ==
    CASE sel.type = "ByteRange" -> usize_sub(sel.end, sel.start, build)
      [] sel.type = "Pattern" -> Usize("some", Len(sel.content), FALSE)
      [] sel.type = "Regex" -> Usize("none", 0, FALSE)
      [] sel.type = "Multiple" ->
            SumSizes(sel.members, 1, Usize("some", 0, FALSE), build)

\* ContentSelection::description: the formatted text, piece by piece, or a
\* panic; wrapped tells that a number in it wrapped
Described(text, wrapped) == [outcome |-> "some", text |-> text, wrapped |-> wrapped]

description(sel, build) ==
    CASE sel.type = "ByteRange" ->
            LET n == usize_sub(sel.end, sel.start, build)
            IN  IF n.outcome = "panic"
                THEN [outcome |-> "panic", text |-> <<>>, wrapped |-> FALSE]
                ELSE Described(<<"Bytes ", sel.start, "-", sel.end, " (", n.value,
                                 " bytes)">>, n.wrapped)
      [] sel.type = "Pattern" ->
            Described(<<"Pattern: ", Slice(sel.content, 0, Min(Len(sel.content), 50)),
                        " (", Len(sel.content), " bytes)">>, FALSE)
      [] sel.type = "Regex" -> Described(<<"Regex: ", sel.content>>, FALSE)
      [] sel.type = "Multiple" ->
            Described(<<"Multiple selections (", Len(sel.members), ")">>, FALSE)

\* ------------------------------------------------------------------------
\* Content extraction on the host (proof.rs)
\* ------------------------------------------------------------------------
RECURSIVE ByteRangeLoop(_, _, _, _, _, _)
ByteRangeLoop(blocks, start, end, i, current_offset, content) ==
    IF i > Len(blocks) THEN content
    ELSE LET block == blocks[i]
             block_start == current_offset
             block_end == current_offset + Len(block.data)
             extract_start == IF start > block_start THEN start - block_start ELSE 0
             extract_end == IF end < block_end THEN end - block_start
                            ELSE Len(block.data)
             content2 == IF block_start < end /\ block_end > start
                         THEN content \o Slice(block.data, extract_start, extract_end)
                         ELSE content
         IN  IF block_end >= end THEN content2
             ELSE ByteRangeLoop(blocks, start, end, i + 1, block_end, content2)

extract_byte_range(blocks, start, end) ==
    LET content == ByteRangeLoop(blocks, start, end, 1, 0, <<>>)
    IN  IF Len(content) = 0 THEN Err("content_selection", 0 - 1) ELSE Ok(content)

\* Some(i) is i >= 0, None is -1
find_pattern(data, pattern) ==
    IF Len(pattern) = 0 \/ Len(pattern) > Len(data) THEN 0 - 1
    ELSE LET hits == {i \in 0..(Len(data) - Len(pattern)) :
                         Slice(data, i, i + Len(pattern)) = pattern}
         IN  IF hits = {} THEN 0 - 1
             ELSE CHOOSE i \in hits : \A j \in hits : i <= j

\* extract_pattern that searches every block on its own
RECURSIVE PatternInSomeBlock(_, _, _)
PatternInSomeBlock(blocks, pattern, i) ==
    IF i > Len(blocks) THEN FALSE
    ELSE find_pattern(blocks[i].data, pattern) >= 0
         \/ PatternInSomeBlock(blocks, pattern, i + 1)

extract_pattern_per_block(blocks, pattern) ==
    IF PatternInSomeBlock(blocks, pattern, 1) THEN Ok(pattern)
    ELSE Err("content_selection", 0 - 1)

extract_pattern(blocks, pattern) ==
    LET all_data == ConcatData(blocks, 1)
    IN  IF find_pattern(all_data, pattern) >= 0 THEN Ok(pattern)
        ELSE Err("content_selection", 0 - 1)

RECURSIVE extract_content(_, _)
RECURSIVE MultipleLoop(_, _, _, _)
MultipleLoop(blocks, selections, i, combined) ==
    IF i > Len(selections) THEN Ok(combined)
    ELSE LET r == extract_content(blocks, selections[i])
         IN  IF ~r.ok THEN r
             ELSE MultipleLoop(blocks, selections, i + 1, combined \o r.bytes)

extract_content(blocks, content_selection) ==
    CASE content_selection.type = "ByteRange" ->
            extract_byte_range(blocks, content_selection.start, content_selection.end)
      [] content_selection.type = "Pattern" ->
            extract_pattern(blocks, content_selection.content)
      [] content_selection.type = "Multiple" ->
            MultipleLoop(blocks, content_selection.members, 1, <<>>)

extract_content_hash(blocks, content_selection) ==
    LET r == extract_content(blocks, content_selection)
    IN  IF r.ok THEN Ok(Sha256(r.bytes)) ELSE r

\* ------------------------------------------------------------------------
\* The proving guest (methods/guest/src/bin/ipfs_content_verifier.rs)
\* ------------------------------------------------------------------------
XPath(selector) ==
    [type |-> "XPath", start |-> 0, end |-> 0, content |-> selector,
     members |-> <<>>]

\* The selection as the guest's env::read() decodes it.  The enum crosses the
\* boundary as its variant index: the host's enum (lib.rs) is ByteRange,
\* Pattern, Regex, Multiple; the guest's is ByteRange, Pattern, Regex, XPath,
\* Multiple.  Index 3, the host's Multiple, is the guest's XPath, whose
\* selector is read from the bytes that encode the member list.
guest_read_selection(sel) ==
    IF sel.type = "Multiple" THEN XPath(<<Len(sel.members)>>) ELSE sel

Panic == Err("guest_panic", 0 - 1)

RECURSIVE GuestRangeLoop(_, _, _, _, _, _)
GuestRangeLoop(blocks, start, end, i, current_pos, result) ==
    IF i > Len(blocks) THEN result
    ELSE LET block == blocks[i]
             block_len == Len(block.data)
             block_end == current_pos + block_len
             slice_start == IF current_pos < start THEN start - current_pos ELSE 0
             slice_end == IF block_end > end THEN end - current_pos ELSE block_len
             result2 == IF block_end > start /\ current_pos < end
                        THEN result \o Slice(block.data, slice_start, slice_end)
                        ELSE result
         IN  IF current_pos + block_len >= end THEN result2
             ELSE GuestRangeLoop(blocks, start, end, i + 1, current_pos + block_len,
                                 result2)

RECURSIVE guest_extract_content(_, _)
RECURSIVE GuestMultipleLoop(_, _, _, _)
GuestMultipleLoop(blocks, selections, i, result) ==
    IF i > Len(selections) THEN Ok(result)
    ELSE LET r == guest_extract_content(blocks, selections[i])
         IN  IF ~r.ok THEN r
             ELSE GuestMultipleLoop(blocks, selections, i + 1, result \o r.bytes)

\* Regex and XPath need text, a pattern compiler and a markup parser; on the
\* byte strings and selectors of this model (a selector of control bytes)
\* they end in a panic
guest_extract_content(blocks, selection) ==
    CASE selection.type = "ByteRange" ->
            LET total_len == TotalLenOf(blocks)
            IN  IF \/ selection.start >= total_len
                   \/ selection.end > total_len
                   \/ selection.start >= selection.end
                THEN Panic
                ELSE Ok(GuestRangeLoop(blocks, selection.start, selection.end, 1, 0,
                                       <<>>))
      [] selection.type = "Multiple" ->
            GuestMultipleLoop(blocks, selection.members, 1, <<>>)
      [] selection.type = "Pattern" ->
            IF find_pattern(ConcatData(blocks, 1), selection.content) >= 0
            THEN Ok(selection.content)
            ELSE Panic
      [] OTHER -> Panic

ProofOutput(root_hash, content_hash, block_count, content_size) ==
    [root_hash |-> root_hash, content_hash |-> content_hash,
     inclusion_proof |-> <<>>,
     block_count |-> block_count, content_size |-> content_size, timestamp |-> 0]

NoJournal == ProofOutput(ZeroHash, ZeroHash, 0, 0)

\* main: the committed journal, or a panic
guest_main(input) ==
    LET extracted == guest_extract_content(input.blocks,
                                           guest_read_selection(input.content_selection))
        content_hash == Sha256(extracted.bytes)
    IN  IF ~extracted.ok THEN [ok |-> FALSE, journal |-> NoJournal]
        ELSE IF content_hash # input.expected_content_hash
        THEN [ok |-> FALSE, journal |-> NoJournal]
        ELSE [ok |-> TRUE,
              journal |-> ProofOutput(ZeroHash, content_hash, Len(input.blocks),
                                      Len(extracted.bytes))]

\* ------------------------------------------------------------------------
\* The circuit of guest/src/main.rs: content hash and inclusion proof
\* ------------------------------------------------------------------------
\* (content_hash, inclusion_proof), or the guest aborted on an assert
Proven(content_hash, inclusion_proof) ==
    [ok |-> TRUE, content_hash |-> content_hash, inclusion_proof |-> inclusion_proof]

Aborted == [ok |-> FALSE, content_hash |-> ZeroHash, inclusion_proof |-> <<>>]

\* the order of <[u8; 32]>::cmp on two hashes
RECURSIVE HashLess(_, _)
HashLess(a, b) ==
    IF Len(b) = 0 THEN FALSE
    ELSE IF Len(a) = 0 THEN TRUE
    ELSE IF Head(a) # Head(b) THEN Head(a) < Head(b)
    ELSE HashLess(Tail(a), Tail(b))

\* combined_proof.sort(); combined_proof.dedup()
RECURSIVE SortedSet(_)
SortedSet(S) ==
    IF S = {} THEN <<>>
    ELSE LET m == CHOOSE x \in S : \A y \in S : x = y \/ HashLess(x, y)
         IN  <<m>> \o SortedSet(S \ {m})

SortDedup(proof) == SortedSet({proof[i] : i \in 1..Len(proof)})

\* extract_byte_range_content: the loop over the blocks
RECURSIVE RangeContentLoop(_, _, _, _, _, _, _)
RangeContentLoop(blocks, start, end, i, current_offset, content, inclusion_proof) ==
    IF i > Len(blocks) THEN Proven(Sha256(content), inclusion_proof)
    ELSE LET block == blocks[i]
             block_start == current_offset
             block_end == current_offset + Len(block.data)
             hit == block_start < end /\ block_end > start
             extract_start == IF start > block_start THEN start - block_start ELSE 0
             extract_end == IF end < block_end THEN end - block_start
                            ELSE Len(block.data)
             content2 == IF hit
                         THEN content \o Slice(block.data, extract_start, extract_end)
                         ELSE content
             proof2 == IF hit THEN Append(inclusion_proof, Sha256(block.data))
                       ELSE inclusion_proof
         IN  IF block_end >= end THEN Proven(Sha256(content2), proof2)
             ELSE RangeContentLoop(blocks, start, end, i + 1, block_end, content2, proof2)

extract_byte_range_content(blocks, start, end) ==
    RangeContentLoop(blocks, start, end, 1, 0, <<>>, <<>>)

\* extract_pattern_content: the blocks whose span holds the match position
RECURSIVE PatternProofLoop(_, _, _, _, _)
PatternProofLoop(blocks, pos, i, current_offset, inclusion_proof) ==
    IF i > Len(blocks) THEN inclusion_proof
    ELSE LET block_end == current_offset + Len(blocks[i].data)
         IN  PatternProofLoop(blocks, pos, i + 1, block_end,
                IF current_offset <= pos /\ block_end > pos
                THEN Append(inclusion_proof, Sha256(blocks[i].data))
                ELSE inclusion_proof)

extract_pattern_content(blocks, pattern) ==
    LET all_data == ConcatData(blocks, 1)
        pos == find_pattern(all_data, pattern)
    IN  IF pos < 0 THEN Aborted
        ELSE Proven(Sha256(Slice(all_data, pos, pos + Len(pattern))),
                    PatternProofLoop(blocks, pos, 1, 0, <<>>))

RECURSIVE extract_and_prove_content(_, _)
RECURSIVE MultipleContentLoop(_, _, _, _, _)
\* extract_multiple_content: the loop over the selections
MultipleContentLoop(blocks, selections, i, combined_content, combined_proof) ==
    IF i > Len(selections)
    THEN Proven(Sha256(combined_content), SortDedup(combined_proof))
    ELSE LET r == extract_and_prove_content(blocks, selections[i])
         IN  IF ~r.ok THEN Aborted
             ELSE MultipleContentLoop(blocks, selections, i + 1,
                                      combined_content \o r.content_hash,
                                      combined_proof \o r.inclusion_proof)

extract_multiple_content(blocks, selections) ==
    MultipleContentLoop(blocks, selections, 1, <<>>, <<>>)

extract_and_prove_content(blocks, selection) ==
    CASE selection.type = "ByteRange" ->
            extract_byte_range_content(blocks, selection.start, selection.end)
      [] selection.type = "Pattern" ->
            extract_pattern_content(blocks, selection.content)
      [] selection.type = "Multiple" ->
            extract_multiple_content(blocks, selection.members)


\* ------------------------------------------------------------------------
\* The proving backend (risc0_zkvm) and the serialized receipt.  The bytes of
\* Proof.zk_proof.receipt are: nothing, bytes that bincode cannot decode, or
\* an encoded Receipt (journal, seal, the image the seal was made for).
\* ------------------------------------------------------------------------
IPFS_CONTENT_VERIFIER_ID == "ipfs_content_verifier"

ReceiptBytes(kind, journal, seal, image) ==
    [kind |-> kind, journal |-> journal, seal |-> seal, image |-> image]

EmptyReceipt == ReceiptBytes("empty", NoJournal, "", "")

GarbageReceipt == ReceiptBytes("garbage", NoJournal, "", "")

\* bincode::serialize(&receipt) of the receipt the prover made for a journal
SerializeReceipt(journal) ==
    ReceiptBytes("receipt", journal, "valid", IPFS_CONTENT_VERIFIER_ID)

\* bincode::deserialize::<Receipt>(bytes) succeeds
ReceiptDecodes(bytes) == bytes.kind = "receipt"

\* receipt.verify(image_id) is Ok
ReceiptVerifies(receipt, image_id) ==
    receipt.seal = "valid" /\ receipt.image = image_id

\* ------------------------------------------------------------------------
\* Proof generator (proof.rs)
\* ------------------------------------------------------------------------
\* ProofConfig::default: security_level, timeout_seconds
DefaultSecurityLevel == 128

DefaultTimeoutSeconds == 600

ProofConfig(security_level, timeout_seconds) ==
    [security_level |-> security_level, timeout_seconds |-> timeout_seconds]

\* CARGO_PKG_VERSION
PkgVersion == "0.1.0"

\* nominal time and size of a generation (the values of create_test_proof)
NominalGenerationMs == 1000

NominalProofSize == 1024

Proof(receipt, content_selection, content_hash, root_hash, security_level, block_count, created_at) ==
    [receipt |-> receipt,
     content_selection |-> content_selection,
     content_hash |-> content_hash,
     root_hash |-> root_hash,
     security_level |-> security_level,
     proof_system |-> "Risc0",
     generation_time_ms |-> NominalGenerationMs,
     proof_size_bytes |-> NominalProofSize,
     block_count |-> block_count,
     created_at |-> created_at,
     version |-> PkgVersion]

NoProof ==
    [receipt |-> EmptyReceipt, content_selection |-> Pattern(<<>>),
     content_hash |-> ZeroHash, root_hash |-> ZeroHash, security_level |-> 0,
     proof_system |-> "", generation_time_ms |-> 0, proof_size_bytes |-> 0,
     block_count |-> 0, created_at |-> 0, version |-> ""]

\* what generate_proof returns, with the work it did on the way, in order:
\* "read" and "chunk" (process_file), "extract", "prove"
GenOk(proof, work) == [ok |-> TRUE, err |-> "", proof |-> proof, work |-> work]

GenErr(kind, work) == [ok |-> FALSE, err |-> kind, proof |-> NoProof, work |-> work]

\* a path of the file system: nothing, a directory, or a regular file with
\* its content and its length as (GiB, bytes beyond them)
Path(kind, content, size_gib, size_rest) ==
    [kind |-> kind, content |-> content, size_gib |-> size_gib,
     size_rest |-> size_rest]

MissingPath == Path("missing", <<>>, 0, 0)

DirectoryPath == Path("directory", <<>>, 0, 0)

RegularFile(content) == Path("file", content, 0, Len(content))

\* MAX_FILE_SIZE, in GiB
MaxFileSizeGiB == 50

\* a file one byte above MAX_FILE_SIZE (its content is never read)
OversizeFile == Path("file", <<>>, MaxFileSizeGiB, 1)

\* validate_inputs without the check of the selection
validate_inputs_of_path(path, content_selection) ==
    IF path.kind = "missing" THEN "invalid_input"
    ELSE IF path.kind # "file" THEN "invalid_input"
    ELSE IF \/ path.size_gib > MaxFileSizeGiB
            \/ path.size_gib = MaxFileSizeGiB /\ path.size_rest > 0
    THEN "resource_limit"
    ELSE ""

\* validate_inputs: "" when the inputs pass
validate_inputs(path, content_selection) ==
    IF path.kind = "missing" THEN "invalid_input"
    ELSE IF path.kind # "file" THEN "invalid_input"
    ELSE IF ~is_valid(content_selection) THEN "content_selection"
    ELSE IF \/ path.size_gib > MaxFileSizeGiB
            \/ path.size_gib = MaxFileSizeGiB /\ path.size_rest > 0
    THEN "resource_limit"
    ELSE ""

\* timeout_seconds: None
NoTimeout == 0 - 1

\* a call of the prover: how it ends for a guest that ends well ("ok" or
\* "error"), and the seconds it runs
ProverRun(result, seconds) == [result |-> result, seconds |-> seconds]

\* prove_future: an async block around the synchronous prove_with_opts; it
\* holds no await, so its first poll runs the prover to its end and is ready
prove_future(input, backend) ==
    LET run == guest_main(input)
    IN  [ready_at_first_poll |-> TRUE,
         seconds |-> backend.seconds,
         ok |-> backend.result = "ok" /\ run.ok,
         journal |-> run.journal]

\* tokio::time::timeout(duration, future): the future is polled first, and
\* the deadline is looked at only when the future is pending
timeout(seconds, future) ==
    IF future.ready_at_first_poll THEN "ready"
    ELSE IF future.seconds > seconds THEN "elapsed"
    ELSE "ready"

\* generate_zk_proof: the receipt's journal, or an error
generate_zk_proof(config, input, backend) ==
    LET future == prove_future(input, backend)
    IN  IF /\ config.timeout_seconds # NoTimeout
           /\ timeout(config.timeout_seconds, future) = "elapsed"
        THEN [ok |-> FALSE, err |-> "timeout", journal |-> NoJournal]
        ELSE IF ~future.ok THEN [ok |-> FALSE, err |-> "zk_proof", journal |-> NoJournal]
        ELSE [ok |-> TRUE, err |-> "", journal |-> future.journal]

\* generate_proof on a path, at time now
generate_proof(config, block_size, path, content_selection, backend, now) ==
    IF validate_inputs(path, content_selection) # ""
    THEN GenErr(validate_inputs(path, content_selection), <<>>)
    ELSE LET bs == create_blocks(path.content, block_size)
             hashed == extract_content_hash(bs, content_selection)
             proof_input == [blocks |-> bs, content_selection |-> content_selection,
                             expected_content_hash |-> hashed.bytes]
             zk == generate_zk_proof(config, proof_input, backend)
         IN  IF ~hashed.ok THEN GenErr(hashed.err, <<"read", "chunk", "extract">>)
             ELSE IF ~zk.ok THEN GenErr(zk.err, <<"read", "chunk", "extract", "prove">>)
             ELSE GenOk(Proof(SerializeReceipt(zk.journal), content_selection,
                              hashed.bytes, zk.journal.root_hash,
                              config.security_level, Len(bs), now),
                        <<"read", "chunk", "extract", "prove">>)

\* update_generation_stats that counts the proof and not its data
update_generation_stats_count_only(stats, size) ==
    [stats EXCEPT !.total_proofs_generated = @ + 1]

\* update_generation_stats for a proof of a file of the given size
update_generation_stats(stats, size) ==
    [stats EXCEPT !.total_proofs_generated = @ + 1,
                  !.total_data_processed_bytes = @ + size]

\* ProofGenerator::verify_proof: Ok(is_valid) or Err
generator_verify_proof(proof, claimed_content) ==
    IF ~ReceiptDecodes(proof.receipt) THEN [ok |-> FALSE, err |-> "serialization", is_valid |-> FALSE]
    ELSE IF ~ReceiptVerifies(proof.receipt, IPFS_CONTENT_VERIFIER_ID)
    THEN [ok |-> FALSE, err |-> "verification", is_valid |-> FALSE]
    ELSE [ok |-> TRUE, err |-> "",
          is_valid |-> /\ Sha256(claimed_content) = proof.content_hash
                       /\ proof.receipt.journal.content_hash = proof.content_hash
                       /\ proof.receipt.journal.root_hash = proof.root_hash]

\* ------------------------------------------------------------------------
\* Proof verifier (verifier.rs)
\* ------------------------------------------------------------------------
\* VerificationConfig::default: max_proof_age_seconds (30 days)
DefaultMaxProofAge == 2592000

\* max_proof_age_seconds: None
NoMaxAge == 0 - 1

\* max_proof_age_seconds is a u64: m >= 0 is Some(m), and m < NoMaxAge stands
\* for Some(2^64 + m + 1), a value of 2^63 or more
U64Max == 0 - 2

\* `max_age as i64`: values of 2^63 or more wrap to negative ones
as_i64(m) == IF m < NoMaxAge THEN m + 1 ELSE m

\* TimeDelta::num_seconds: the whole seconds of a span of ticks, toward zero
num_seconds(ticks) ==
    IF ticks >= 0 THEN ticks \div TicksPerSecond
    ELSE 0 - ((0 - ticks) \div TicksPerSecond)

VerificationConfig(strict, include_steps, max_age, verify_md, custom_rules) ==
    [strict_verification |-> strict,
     include_verification_steps |-> include_steps,
     max_proof_age_seconds |-> max_age,
     verify_metadata |-> verify_md,
     custom_rules |-> custom_rules]

DefaultVerificationConfig ==
    VerificationConfig(TRUE, FALSE, DefaultMaxProofAge, TRUE, <<>>)

\* a VerificationRule; custom is what a Custom validator returns for every
\* proof: "true", "false" or "error"
Rule(name, rule_type, level, size, system, custom) ==
    [name |-> name, rule_type |-> rule_type, level |-> level, size |-> size,
     system |-> system, custom |-> custom]

MinSecurityLevel(name, level) == Rule(name, "MinSecurityLevel", level, 0, "", "")

MaxProofSize(name, size) == Rule(name, "MaxProofSize", 0, size, "", "")

RequiredProofSystem(name, system) == Rule(name, "RequiredProofSystem", 0, 0, system, "")

CustomRule(name, outcome) == Rule(name, "Custom", 0, 0, "", outcome)

Warning(msg, rule) == [msg |-> msg, rule |-> rule]

VerificationStep(name, passed) ==
    [name |-> name, passed |-> passed,
     details |-> IF passed THEN "" ELSE
                 CASE name = "Proof Structure Validation" -> "Invalid proof structure"
                   [] name = "Cryptographic Proof Verification" ->
                        "Cryptographic verification failed"
                   [] name = "Content Hash Verification" -> "Content hash mismatch"
                   [] name = "Metadata Verification" -> "Metadata verification failed"
                   [] name = "Custom Rules Verification" ->
                        "Custom rules verification failed"]

\* verify_proof_structure; hash fields are [u8; 32], their length is 32
verify_proof_structure(config, proof, now) ==
    IF proof.version = "" THEN FALSE
    ELSE IF /\ config.max_proof_age_seconds # NoMaxAge
            /\ num_seconds(now - proof.created_at) > as_i64(config.max_proof_age_seconds)
    THEN FALSE
    ELSE IF proof.receipt.kind = "empty" THEN FALSE
    ELSE IF ~is_valid(proof.content_selection) THEN FALSE
    ELSE TRUE

\* verify_cryptographic_proof: "err" when the receipt cannot be decoded
verify_cryptographic_proof(proof) ==
    IF ~ReceiptDecodes(proof.receipt) THEN "err"
    ELSE IF ReceiptVerifies(proof.receipt, IPFS_CONTENT_VERIFIER_ID) THEN "true"
    ELSE "false"

\* verify_content_hash against the hash committed in the receipt's journal
verify_content_hash_of_journal(proof, claimed_content) ==
    Sha256(claimed_content) = proof.receipt.journal.content_hash

\* verify_content_hash that compares nothing
verify_content_hash_skipped(proof, claimed_content) == TRUE

verify_content_hash(proof, claimed_content) ==
    Sha256(claimed_content) = proof.content_hash

\* verify_metadata that also fails a slow or a large proof under strict mode
verify_metadata_strict_sizes(config, proof) ==
    [is_valid |-> ~(config.strict_verification
                    /\ (proof.security_level < 128 \/ proof.proof_system # "Risc0"
                        \/ proof.generation_time_ms > 3600000
                        \/ proof.proof_size_bytes > 100 * 1024 * 1024
                        \/ proof.block_count = 0)),
     warnings |-> <<>>]

\* verify_metadata: (is_valid, warnings)
verify_metadata(config, proof) ==
    LET low == proof.security_level < 128
        system == proof.proof_system # "Risc0"
        slow == proof.generation_time_ms > 3600000
        large == proof.proof_size_bytes > 100 * 1024 * 1024
        none == proof.block_count = 0
        w(cond, msg) == IF cond THEN <<Warning(msg, "")>> ELSE <<>>
    IN  [is_valid |-> ~(config.strict_verification /\ (low \/ system \/ none)),
         warnings |->
            w(low, "Security level below recommended minimum (128 bits)")
            \o w(system, "Unexpected proof system")
            \o w(slow, "Unusually long proof generation time")
            \o w(large, "Unusually large proof size")
            \o w(none, "No IPFS blocks in file info")]

\* the outcome of one rule of verify_custom_rules on a proof
rule_result(rule, proof) ==
    CASE rule.rule_type = "MinSecurityLevel" -> proof.security_level >= rule.level
      [] rule.rule_type = "MaxProofSize" -> proof.proof_size_bytes <= rule.size
      [] rule.rule_type = "RequiredProofSystem" -> proof.proof_system = rule.system
      [] rule.rule_type = "Custom" -> rule.custom = "true"

RECURSIVE RulesLoop(_, _, _, _, _)
RulesLoop(config, proof, i, valid, warnings) ==
    IF i > Len(config.custom_rules)
    THEN [is_valid |-> valid, warnings |-> warnings]
    ELSE LET rule == config.custom_rules[i]
             errored == rule.rule_type = "Custom" /\ rule.custom = "error"
             w1 == IF errored
                   THEN Append(warnings, Warning("Custom rule failed with an error",
                                                 rule.name))
                   ELSE warnings
         IN  IF rule_result(rule, proof)
             THEN RulesLoop(config, proof, i + 1, valid, w1)
             ELSE RulesLoop(config, proof, i + 1,
                            valid /\ ~config.strict_verification,
                            Append(w1, Warning("Custom rule failed", rule.name)))

\* verify_custom_rules that pushes no warning
verify_custom_rules_silent(config, proof) ==
    [is_valid |-> RulesLoop(config, proof, 1, TRUE, <<>>).is_valid, warnings |-> <<>>]

\* verify_custom_rules: (is_valid, warnings)
verify_custom_rules(config, proof) == RulesLoop(config, proof, 1, TRUE, <<>>)

\* create_verification_result; recorded is the verification_steps vector as
\* verify_detailed built it, counted tells whether update_stats was called
create_verification_result(config, valid, verification_steps, warnings, counted) ==
    [ok |-> TRUE, err |-> "",
     is_valid |-> valid,
     warnings |-> warnings,
     verification_steps |-> IF config.include_verification_steps
                            THEN verification_steps ELSE <<>>,
     recorded |-> verification_steps,
     counted |-> counted]

VerifyErr(kind) ==
    [ok |-> FALSE, err |-> kind, is_valid |-> FALSE, warnings |-> <<>>,
     verification_steps |-> <<>>, recorded |-> <<>>, counted |-> FALSE]

\* verify_detailed, steps 4 and 5 and the final result
VerifyPolicy(config, proof, steps3) ==
    LET md == verify_metadata(config, proof)
        w4 == IF config.verify_metadata THEN md.warnings ELSE <<>>
        steps4 == IF config.verify_metadata
                  THEN Append(steps3, VerificationStep("Metadata Verification",
                                                       md.is_valid))
                  ELSE steps3
        rules == verify_custom_rules(config, proof)
        has_rules == Len(config.custom_rules) # 0
        w5 == IF has_rules THEN w4 \o rules.warnings ELSE w4
        steps5 == IF has_rules
                  THEN Append(steps4, VerificationStep("Custom Rules Verification",
                                                       rules.is_valid))
                  ELSE steps4
    IN  IF config.verify_metadata /\ config.strict_verification /\ ~md.is_valid
        THEN create_verification_result(config, FALSE, steps4, w4, FALSE)
        ELSE IF has_rules /\ config.strict_verification /\ ~rules.is_valid
        THEN create_verification_result(config, FALSE, steps5, w5, FALSE)
        ELSE create_verification_result(config, TRUE, steps5, w5, TRUE)

\* verify_detailed: Ok(VerificationResult) or Err
verify_detailed(config, proof, claimed_content, now) ==
    LET structure_valid == verify_proof_structure(config, proof, now)
        steps1 == <<VerificationStep("Proof Structure Validation", structure_valid)>>
        crypto == verify_cryptographic_proof(proof)
        steps2 == Append(steps1, VerificationStep("Cryptographic Proof Verification",
                                                  crypto = "true"))
        content_valid == verify_content_hash(proof, claimed_content)
        steps3 == Append(steps2, VerificationStep("Content Hash Verification",
                                                  content_valid))
    IN  IF ~structure_valid
        THEN create_verification_result(config, FALSE, steps1, <<>>, FALSE)
        ELSE IF crypto = "err" THEN VerifyErr("serialization")
        ELSE IF crypto = "false"
        THEN create_verification_result(config, FALSE, steps2, <<>>, FALSE)
        ELSE IF ~content_valid
        THEN create_verification_result(config, FALSE, steps3, <<>>, FALSE)
        ELSE VerifyPolicy(config, proof, steps3)

\* verify_batch: Ok(results), or the first Err; counted is the number of
\* update_stats calls made on the way
RECURSIVE BatchLoop(_, _, _, _, _, _)
BatchLoop(config, items, now, i, results, counted) ==
    IF i > Len(items)
    THEN [ok |-> TRUE, err |-> "", results |-> results, counted |-> counted]
    ELSE LET r == verify_detailed(config, items[i].proof, items[i].claimed, now)
             n == counted + (IF r.counted THEN 1 ELSE 0)
         IN  IF ~r.ok
             THEN [ok |-> FALSE, err |-> r.err, results |-> <<>>, counted |-> n]
             ELSE BatchLoop(config, items, now, i + 1, Append(results, r), n)

verify_batch(config, items, now) == BatchLoop(config, items, now, 1, <<>>, 0)

VerificationStatistics(total, successful, failed) ==
    [total_verifications |-> total, successful_verifications |-> successful,
     failed_verifications |-> failed]

\* update_stats(true, _), n times
update_stats(stats, n) ==
    VerificationStatistics(stats.total_verifications + n,
                           stats.successful_verifications + n,
                           stats.failed_verifications)

\* ------------------------------------------------------------------------
\* The block store and the extractor as a state machine: a processor with a
\* configured block size, the file it last processed, the blocks it returned,
\* and the last operation applied to them with its result.
\* ------------------------------------------------------------------------
VARIABLES max_block_size, file, blocks, last,
          gconfig, gstats, genuine, proof, vconfig, vstats, vout, gcall,
          jobs, tasks, polled, cache

storeVars == <<max_block_size, file, blocks, last>>

proofVars == <<gconfig, gstats, genuine, proof, vconfig, vstats, vout, gcall>>

\* the server's job map, its handlers and spawned tasks, the last answer of
\* get_status, and the cache manager
serviceVars == <<jobs, tasks, polled, cache>>

vars == <<storeVars, proofVars, serviceVars>>

NoSelection == Pattern(<<>>)

Op(op, sel, index, data, res) ==
    [op |-> op, sel |-> sel, index |-> index, data |-> data, res |-> res]

\* offsets near the start and near the end of the block data
Positions(bs) ==
    {p \in 0..(TotalLenOf(bs) + 1) : p <= MaxPos \/ p + MaxPos >= TotalLenOf(bs) + 1}

Patterns == SeqsUpTo(Alphabet, 2) \ {<<>>}

SimpleSelections(bs) ==
    {ByteRange(a, b) : a \in Positions(bs), b \in Positions(bs)}
        \cup {Pattern(c) : c \in SeqsUpTo(Alphabet, 2)}

ValidSelections(bs) ==
    LET simple == {sel \in SimpleSelections(bs) : is_valid(sel)}
        near == {Pattern(<<0>>), ByteRange(0, 1), ByteRange(1, 2)}
    IN  simple \cup {Multiple(<<x, y>>) : x \in near, y \in near}

\* a byte string other than data: one byte changed, one dropped, one added
TamperedData(data) ==
    {[data EXCEPT ![k] = (data[k] + 1) % 256] :
        k \in {j \in 1..Len(data) : j <= MaxPos \/ j = Len(data)}}
        \cup {data \o <<0>>}
        \cup {SubSeq(data, 1, Len(data) - 1) : k \in {j \in {1} : Len(data) > 0}}

\* IpfsProcessor::process_file on a file with the given content
ProcessFile(content) ==
    /\ file' = content
    /\ blocks' = create_blocks(content, max_block_size)
    /\ last' = Op("process", NoSelection, 0 - 1, <<>>, Ok(<<>>))
    /\ UNCHANGED <<max_block_size, proofVars, serviceVars>>

\* IpfsProcessor::reconstruct_content on the blocks of the file
Reconstruct ==
    /\ last' = Op("reconstruct", NoSelection, 0 - 1, <<>>, reconstruct_content(blocks))
    /\ UNCHANGED <<max_block_size, file, blocks, proofVars, serviceVars>>

\* the arrangements of some or all of the blocks after the root: sequences of
\* distinct indices into the block list
Arrangements(bs) ==
    {order \in SeqsUpTo(2..Len(bs), Len(bs) - 1) :
        \A i \in 1..Len(order), j \in 1..Len(order) : i # j => order[i] # order[j]}

\* the root block followed by the blocks an arrangement names
Arranged(bs, order) == <<bs[1]>> \o [k \in 1..Len(order) |-> bs[order[k]]]

\* IpfsProcessor::reconstruct_content on a block set made of the root block of
\* a multi-block file and some or all of its chunks, in any order
ReconstructFrom(order) ==
    /\ Len(blocks) > 1
    /\ last' = Op("reconstruct_from", NoSelection, 0 - 1, order,
                  reconstruct_content(Arranged(blocks, order)))
    /\ UNCHANGED <<max_block_size, file, blocks, proofVars, serviceVars>>

\* IpfsProcessor::validate_blocks on the blocks of the file
Validate ==
    /\ last' = Op("validate", NoSelection, 0 - 1, <<>>, validate_blocks(blocks))
    /\ UNCHANGED <<max_block_size, file, blocks, proofVars, serviceVars>>

\* validate_blocks on a copy of the blocks in which the data of block i
\* (0-based) was replaced and its cid kept
ValidateTampered(i, data) ==
    /\ last' = Op("validate_tampered", NoSelection, i, data,
                  validate_blocks([blocks EXCEPT ![i + 1].data = data]))
    /\ UNCHANGED <<max_block_size, file, blocks, proofVars, serviceVars>>

\* ProofGenerator::extract_content on the blocks of the file, with a selection
\* that passed validate_inputs
Extract(sel) ==
    /\ last' = Op("extract", sel, 0 - 1, <<>>, extract_content(blocks, sel))
    /\ UNCHANGED <<max_block_size, file, blocks, proofVars, serviceVars>>

\* the circuit's extract_and_prove_content on the blocks of the file
ExtractAndProve(sel) ==
    LET r == extract_and_prove_content(blocks, sel)
    IN  /\ last' = Op("extract_and_prove", sel, 0 - 1,
                      IF r.ok THEN r.inclusion_proof ELSE <<>>,
                      IF r.ok THEN Ok(r.content_hash) ELSE Err("abort", 0 - 1))
        /\ UNCHANGED <<max_block_size, file, blocks, proofVars, serviceVars>>

StoreNext ==
    \/ \E content \in SeqsUpTo(Alphabet, MaxFileLen) : ProcessFile(content)
    \/ Reconstruct
    \/ \E order \in Arrangements(blocks) : ReconstructFrom(order)
    \/ Validate
    \/ \E i \in 0..(Len(blocks) - 1) :
            \E data \in TamperedData(blocks[i + 1].data) : ValidateTampered(i, data)
    \/ \E sel \in ValidSelections(blocks) : Extract(sel)
    \/ \E sel \in ValidSelections(blocks) : ExtractAndProve(sel)


\* ------------------------------------------------------------------------
\* The generator and the verifier as a state machine: a ProofGenerator
\* (gconfig, gstats), a ProofVerifier (vconfig, vstats), the proof the last
\* generation returned (genuine), the proof at hand, which is that proof or a
\* copy with one field replaced, and the last call with its result (vout).
\* ------------------------------------------------------------------------
ProofStatistics(generated, verified, bytes) ==
    [total_proofs_generated |-> generated, total_proofs_verified |-> verified,
     total_data_processed_bytes |-> bytes]

Item(p, claimed) == [proof |-> p, claimed |-> claimed]

VOut(op, items, now, ok, err, results) ==
    [op |-> op, items |-> items, now |-> now, ok |-> ok, err |-> err,
     results |-> results]

\* the result of ProofGenerator::verify_proof as a result record
BoolResult(valid) ==
    [ok |-> TRUE, err |-> "", is_valid |-> valid, warnings |-> <<>>,
     verification_steps |-> <<>>, recorded |-> <<>>, counted |-> FALSE]

\* a generate_proof call: its inputs and the work it did
GCall(path, sel, backend, work) ==
    [path |-> path, sel |-> sel, backend |-> backend, work |-> work]

NoCall == GCall(MissingPath, NoSelection, ProverRun("", 0), <<>>)

DefaultProofConfig == ProofConfig(DefaultSecurityLevel, DefaultTimeoutSeconds)

\* ------------------------------------------------------------------------
\* The server (server/src/handlers.rs, state.rs): the job map behind its lock,
\* the generate_proof handler of each request and the task it spawns
\* ------------------------------------------------------------------------
MaxJobs == 2

\* Uuid::new_v4: the ids of the requests, all different
JobIds == 1..MaxJobs

\* JobStatus: Pending, Processing, Completed(result), Failed(message)
JobStatus(status, result) == [status |-> status, result |-> result]

Pending == JobStatus("Pending", "")

Processing == JobStatus("Processing", "")

JobCompleted(value) == JobStatus("Completed", value)

JobFailed(message) == JobStatus("Failed", message)

Job(id, status) == [id |-> id, status |-> status]

\* a multipart request: the uploaded file if any, and the content_selection
\* field if any
Request(has_file, content, content_str) ==
    [has_file |-> has_file, content |-> content, content_str |-> content_str]

\* the text of a content_selection field: its prefix and what follows it
SelectionText(prefix, bytes) == [prefix |-> prefix, bytes |-> bytes]

\* the field is missing: content_str is "pattern: "
DefaultSelectionText == SelectionText("pattern", <<32>>)

NoRequest == Request(FALSE, <<>>, SelectionText("", <<>>))

Requests ==
    {Request(FALSE, <<>>, DefaultSelectionText),
     Request(TRUE, <<0, 1>>, SelectionText("pattern", <<1>>)),
     Request(TRUE, <<0, 1>>, DefaultSelectionText)}

\* process_proof_request: the selection parsed from content_str; a text with
\* no known prefix is a pattern of its own bytes
parse_content_selection(content_str) ==
    IF content_str.prefix = "pattern" THEN Pattern(content_str.bytes)
    ELSE IF content_str.prefix = "regex" THEN Regex(content_str.bytes)
    ELSE Pattern(content_str.bytes)

\* the handler of a request and the task it spawned: where each of them is,
\* the request, what the call of generate_proof returns for it once the
\* prover has run, and the result the task ends with
Task(handler, task, request, generated, result) ==
    [handler |-> handler, task |-> task, request |-> request,
     generated |-> generated, result |-> result]

Outcome(ok, text) == [ok |-> ok, text |-> text]

NoOutcome == Outcome(FALSE, "")

IdleTask == Task("idle", "none", NoRequest, NoOutcome, NoOutcome)

\* the answer of get_status
Poll(id, found, status) == [id |-> id, found |-> found, status |-> status]

NoPoll == Poll(0, FALSE, "")

\* an update that writes the status of every job
set_status_of_all(map, id, status) ==
    [j \in DOMAIN map |-> [map[j] EXCEPT !.status = status]]

\* an update that finds no job
set_status_dropped(map, id, status) == map

\* jobs.get_mut(&job_id) and the assignment of the status, under the write lock
set_status(map, id, status) ==
    IF id \in DOMAIN map THEN [map EXCEPT ![id].status = status] ELSE map

\* the prover ends well or with an error
JobBackends == {ProverRun(result, 1) : result \in {"ok", "error"}}

\* process_proof_request: ProofGenerator::generate_proof on the uploaded file
\* and the parsed selection
generate_for_request(request, backend) ==
    LET r == generate_proof(DefaultProofConfig, DefaultMaxBlockSize,
                            RegularFile(request.content),
                            parse_content_selection(request.content_str), backend, 0)
    IN  IF r.ok THEN Outcome(TRUE, "proof") ELSE Outcome(FALSE, r.err)

\* generate_proof (handler): the job is inserted as Pending
InsertJob(id) ==
    /\ tasks[id].handler = "idle"
    /\ \A j \in JobIds : j < id => tasks[j].handler # "idle"
    /\ jobs' = (id :> Job(id, Pending)) @@ jobs
    /\ tasks' = [tasks EXCEPT ![id].handler = "inserted"]
    /\ UNCHANGED <<storeVars, proofVars, polled, cache>>

\* generate_proof (handler): tokio::spawn of the task, which owns the request;
\* the run of the prover that the task will meet is fixed here
SpawnTask(id, request, backend) ==
    /\ tasks[id].handler = "inserted"
    /\ tasks' = [tasks EXCEPT
                   ![id] = Task("spawned", "spawned", request,
                                generate_for_request(request, backend), NoOutcome)]
    /\ UNCHANGED <<storeVars, proofVars, jobs, polled, cache>>

\* generate_proof (handler): the job id is returned to the caller
ReturnJobId(id) ==
    /\ tasks[id].handler = "spawned"
    /\ tasks' = [tasks EXCEPT ![id].handler = "returned"]
    /\ UNCHANGED <<storeVars, proofVars, jobs, polled, cache>>

\* process_proof_request, up to its first await: the status becomes Processing
StartProcessing(id) ==
    /\ tasks[id].task = "spawned"
    /\ jobs' = set_status(jobs, id, Processing)
    /\ tasks' = [tasks EXCEPT ![id].task = "parsing"]
    /\ UNCHANGED <<storeVars, proofVars, polled, cache>>

\* process_proof_request: the multipart fields are read; without a file the
\* request ends in an error
ParseRequest(id) ==
    /\ tasks[id].task = "parsing"
    /\ tasks' = IF tasks[id].request.has_file
                THEN [tasks EXCEPT ![id].task = "generating"]
                ELSE [tasks EXCEPT ![id].task = "returned",
                                   ![id].result = Outcome(FALSE, "No file uploaded")]
    /\ UNCHANGED <<storeVars, proofVars, jobs, polled, cache>>

\* process_proof_request: the call of generate_proof returns
GenerateForJob(id) ==
    /\ tasks[id].task = "generating"
    /\ tasks' = [tasks EXCEPT ![id].task = "returned",
                              ![id].result = tasks[id].generated]
    /\ UNCHANGED <<storeVars, proofVars, jobs, polled, cache>>

\* the prover never returns: the blocking call keeps the task where it is
BackendHangs(id) ==
    /\ tasks[id].task = "generating"
    /\ tasks[id].generated.text \in {"proof", "zk_proof"}
    /\ tasks' = [tasks EXCEPT ![id].task = "hung"]
    /\ UNCHANGED <<storeVars, proofVars, jobs, polled, cache>>

\* the spawned task: the status becomes Completed or Failed
FinishJob(id) ==
    /\ tasks[id].task = "returned"
    /\ jobs' = set_status(jobs, id,
                          IF tasks[id].result.ok
                          THEN JobCompleted(tasks[id].result.text)
                          ELSE JobFailed(tasks[id].result.text))
    /\ tasks' = [tasks EXCEPT ![id].task = "done", ![id].request = NoRequest,
                              ![id].generated = NoOutcome, ![id].result = NoOutcome]
    /\ UNCHANGED <<storeVars, proofVars, polled, cache>>

\* get_status of an id: one that a caller was given, or one of no job
GetStatus(id) ==
    /\ id \in JobIds => tasks[id].handler = "returned"
    /\ polled' = IF id \in DOMAIN jobs THEN Poll(id, TRUE, jobs[id].status.status)
                 ELSE Poll(id, FALSE, "")
    /\ UNCHANGED <<storeVars, proofVars, jobs, tasks, cache>>

\* ---- the cache manager (cache.rs) ----

\* the keys that are stored and the sizes of their serialized entries
MaxCacheKeys == 2

MaxEntrySize == 2

CacheKeys == 1..MaxCacheKeys

EntrySizes == 1..MaxEntrySize

\* config.max_memory_cache_bytes and config.entry_ttl_seconds of the manager
\* that is modelled, and the last second of its clock
MaxMemoryCacheBytes == 3

EntryTtl == 1

MaxCacheTime == 2

\* CacheEntry: the fields that the accounting and the eviction read
CacheEntry(size_bytes, created_at, last_accessed) ==
    [size_bytes |-> size_bytes, created_at |-> created_at,
     last_accessed |-> last_accessed]

\* CacheManager::new on an empty cache directory: the memory map, the files of
\* the disk cache, stats.memory_cache_bytes and the system clock in seconds
NewCache == [memory_cache |-> <<>>, disk |-> <<>>, memory_cache_bytes |-> 0, now |-> 0]

\* HashMap::remove
Without(map, key) == [k \in DOMAIN map \ {key} |-> map[k]]

\* the sum of size_bytes over the entries of a map
RECURSIVE SumEntrySizes(_)
SumEntrySizes(map) ==
    IF DOMAIN map = {} THEN 0
    ELSE LET key == CHOOSE k \in DOMAIN map : TRUE
         IN  map[key].size_bytes + SumEntrySizes(Without(map, key))

\* created_at.elapsed().as_secs() > entry_ttl_seconds
is_entry_expired(entry, now) == now - entry.created_at > EntryTtl

\* the orders in which sort_by_key(last_accessed) may leave the entries of the
\* map: entries of one instant stay in the map's iteration order
EvictionOrders(map) ==
    {order \in [1..Cardinality(DOMAIN map) -> DOMAIN map] :
        /\ \A i, j \in DOMAIN order : i # j => order[i] # order[j]
        /\ \A i, j \in DOMAIN order :
             i < j => map[order[i]].last_accessed <= map[order[j]].last_accessed}

\* evict_memory_cache_entries: entries leave in the order, each subtracted
\* from memory_cache_bytes, until the freed bytes reach needed_bytes
RECURSIVE evict_memory_cache_entries(_, _, _, _, _)
evict_memory_cache_entries(c, needed_bytes, order, i, freed_bytes) ==
    IF i > Cardinality(DOMAIN order) THEN c
    ELSE LET entry == c.memory_cache[order[i]]
             next == [c EXCEPT !.memory_cache = Without(@, order[i]),
                               !.memory_cache_bytes = @ - entry.size_bytes]
         IN  IF freed_bytes + entry.size_bytes >= needed_bytes THEN next
             ELSE evict_memory_cache_entries(next, needed_bytes, order, i + 1,
                                             freed_bytes + entry.size_bytes)

\* store: the entry goes into the memory map, after an eviction when the
\* counted bytes leave no room for it, and into the disk cache
Store(key, size, order) ==
    /\ order \in EvictionOrders(cache.memory_cache)
    /\ LET entry == CacheEntry(size, cache.now, cache.now)
           room == IF cache.memory_cache_bytes + size <= MaxMemoryCacheBytes
                   THEN cache
                   ELSE evict_memory_cache_entries(cache, size, order, 1, 0)
       IN  cache' = [room EXCEPT !.memory_cache = (key :> entry) @@ @,
                                 !.memory_cache_bytes = @ + size,
                                 !.disk = (key :> entry) @@ @]
    /\ UNCHANGED <<storeVars, proofVars, jobs, tasks, polled>>

\* retrieve: a hit in memory is touched; a hit on disk that has not expired is
\* promoted when the counted bytes leave room, one that has expired is deleted
Retrieve(key) ==
    /\ cache' =
         IF key \in DOMAIN cache.memory_cache
         THEN [cache EXCEPT !.memory_cache[key].last_accessed = cache.now]
         ELSE IF key \notin DOMAIN cache.disk THEN cache
         ELSE IF is_entry_expired(cache.disk[key], cache.now)
         THEN [cache EXCEPT !.disk = Without(@, key)]
         ELSE IF cache.memory_cache_bytes + cache.disk[key].size_bytes
                   <= MaxMemoryCacheBytes
         THEN [cache EXCEPT
                 !.memory_cache =
                    (key :> [cache.disk[key] EXCEPT !.last_accessed = cache.now]) @@ @,
                 !.memory_cache_bytes = @ + cache.disk[key].size_bytes]
         ELSE cache
    /\ UNCHANGED <<storeVars, proofVars, jobs, tasks, polled>>

\* remove: the entry leaves the memory map and the disk cache
Remove(key) ==
    /\ cache' =
         [cache EXCEPT
            !.memory_cache = Without(@, key),
            !.memory_cache_bytes =
               IF key \in DOMAIN cache.memory_cache
               THEN @ - cache.memory_cache[key].size_bytes ELSE @,
            !.disk = Without(@, key)]
    /\ UNCHANGED <<storeVars, proofVars, jobs, tasks, polled>>

\* clear
Clear ==
    /\ cache' = [cache EXCEPT !.memory_cache = <<>>, !.memory_cache_bytes = 0,
                              !.disk = <<>>]
    /\ UNCHANGED <<storeVars, proofVars, jobs, tasks, polled>>

\* cleanup: the expired entries leave the memory map and the disk cache
Cleanup ==
    /\ LET expired_keys == {k \in DOMAIN cache.memory_cache :
                               is_entry_expired(cache.memory_cache[k], cache.now)}
           kept == [k \in DOMAIN cache.memory_cache \ expired_keys |->
                       cache.memory_cache[k]]
       IN  cache' =
             [cache EXCEPT
                !.memory_cache = kept,
                !.memory_cache_bytes =
                   @ - (SumEntrySizes(cache.memory_cache) - SumEntrySizes(kept)),
                !.disk = [k \in {d \in DOMAIN @ :
                                    ~is_entry_expired(@[d], cache.now)} |-> @[k]]]
    /\ UNCHANGED <<storeVars, proofVars, jobs, tasks, polled>>

\* a second of the system clock passes
CacheTick ==
    /\ cache.now < MaxCacheTime
    /\ cache' = [cache EXCEPT !.now = @ + 1]
    /\ UNCHANGED <<storeVars, proofVars, jobs, tasks, polled>>

ServiceIdle ==
    /\ jobs = <<>>
    /\ tasks = [id \in JobIds |-> IdleTask]
    /\ polled = NoPoll
    /\ cache = NewCache

ProofIdle(gc, vc) ==
    /\ ServiceIdle
    /\ gconfig = gc
    /\ gstats = ProofStatistics(0, 0, 0)
    /\ genuine = NoProof
    /\ proof = NoProof
    /\ vconfig = vc
    /\ vstats = VerificationStatistics(0, 0, 0)
    /\ vout = VOut("new", <<>>, 0, TRUE, "", <<>>)
    /\ gcall = NoCall

StoreIdle(sizes) ==
    /\ max_block_size \in sizes
    /\ file = <<>>
    /\ blocks = <<>>
    /\ last = Op("new", NoSelection, 0 - 1, <<>>, Ok(<<>>))

\* the instants at which a proof made at instant 0 is verified
Times ==
    {0} \cup {DefaultMaxProofAge * TicksPerSecond + k : k \in 0..(MaxSkew * TicksPerSecond)}

\* the instants around the age limit: the instant of creation, the limit to the
\* tick, one tick past it and one whole second past it
BoundaryTimes ==
    {0} \cup {DefaultMaxProofAge * TicksPerSecond + k : k \in {0, 1, TicksPerSecond}}

\* a prover call that ends well within the nominal generation time
QuickRun == ProverRun("ok", NominalGenerationMs \div 1000)

\* the prover ends well or with an error, in time or after the default timeout
BackendOutcomes ==
    {ProverRun(r, t) : r \in {"ok", "error"},
                       t \in {NominalGenerationMs \div 1000, DefaultTimeoutSeconds + 1}}

\* ProofGenerator::generate_proof on a path
GenerateProof(path, sel, backend) ==
    LET r == generate_proof(gconfig, max_block_size, path, sel, backend, 0)
        read == Len(r.work) > 0
    IN  /\ file' = IF read THEN path.content ELSE file
        /\ blocks' = IF read THEN create_blocks(path.content, max_block_size) ELSE blocks
        /\ genuine' = r.proof
        /\ proof' = r.proof
        /\ gstats' = IF r.ok THEN update_generation_stats(gstats, Len(path.content))
                     ELSE gstats
        /\ vout' = VOut("generate", <<>>, 0, r.ok, r.err, <<>>)
        /\ gcall' = GCall(path, sel, backend, r.work)
        /\ UNCHANGED <<max_block_size, last, gconfig, vconfig, vstats, serviceVars>>

\* the proof at hand is replaced by a copy of the generated proof with one
\* field changed
TamperProof(forged) ==
    /\ genuine # NoProof
    /\ proof = genuine
    /\ forged # genuine
    /\ proof' = forged
    /\ UNCHANGED <<serviceVars, storeVars, gconfig, gstats, genuine, vconfig, vstats, vout, gcall>>

\* ProofGenerator::verify_proof on the proof at hand
VerifyProof(claimed) ==
    LET r == generator_verify_proof(proof, claimed)
    IN  /\ proof # NoProof
        /\ gstats' = IF r.ok THEN [gstats EXCEPT !.total_proofs_verified = @ + 1]
                     ELSE gstats
        /\ vout' = VOut("verify_proof", <<Item(proof, claimed)>>, 0, r.ok, r.err,
                        IF r.ok THEN <<BoolResult(r.is_valid)>> ELSE <<>>)
        /\ UNCHANGED <<serviceVars, storeVars, gconfig, genuine, proof, vconfig, vstats, gcall>>

\* ProofVerifier::verify_detailed on the proof at hand, at instant now
VerifyDetailed(claimed, now) ==
    LET r == verify_detailed(vconfig, proof, claimed, now)
    IN  /\ proof # NoProof
        /\ vstats' = update_stats(vstats, IF r.counted THEN 1 ELSE 0)
        /\ vout' = VOut("verify_detailed", <<Item(proof, claimed)>>, now, r.ok, r.err,
                        IF r.ok THEN <<r>> ELSE <<>>)
        /\ UNCHANGED <<serviceVars, storeVars, gconfig, gstats, genuine, proof, vconfig, gcall>>

\* ProofVerifier::verify_simple on the proof at hand, at instant now
VerifySimple(claimed, now) ==
    LET r == verify_detailed(vconfig, proof, claimed, now)
    IN  /\ proof # NoProof
        /\ vstats' = update_stats(vstats, IF r.counted THEN 1 ELSE 0)
        /\ vout' = VOut("verify_simple", <<Item(proof, claimed)>>, now, r.ok, r.err,
                        IF r.ok THEN <<BoolResult(r.is_valid)>> ELSE <<>>)
        /\ UNCHANGED <<serviceVars, storeVars, gconfig, gstats, genuine, proof, vconfig, gcall>>

\* ProofVerifier::verify_batch on a list of (proof, claimed content) pairs
VerifyBatch(items, now) ==
    LET r == verify_batch(vconfig, items, now)
    IN  /\ proof # NoProof
        /\ vstats' = update_stats(vstats, r.counted)
        /\ vout' = VOut("verify_batch", items, now, r.ok, r.err, r.results)
        /\ UNCHANGED <<serviceVars, storeVars, gconfig, gstats, genuine, proof, vconfig, gcall>>

\* a session makes one generate_proof call, and verifies the proof it returned;
\* the numbers of verifications counted in the statistics are capped
CanGenerate == gcall = NoCall

CanVerifyProof == gstats.total_proofs_verified < MaxCalls

CanVerify == vstats.total_verifications < MaxCalls

\* the content a proof's selection selects in the file it was made for
Selected(bs, p) == extract_content(bs, p.content_selection).bytes

\* the claimed contents tried on a proof: the selected content and others
Claimed(bs, p) == SeqsUpTo(Alphabet, 1) \cup {Selected(bs, p)}

Hashes == {Sha256(c) : c \in SeqsUpTo(Alphabet, 1)} \cup {ZeroHash}

\* copies of a proof with one field replaced
Forgeries(p) ==
    {[p EXCEPT !.content_hash = h] : h \in Hashes}
        \cup {[p EXCEPT !.root_hash = Sha256(<<>>)]}
        \cup {[p EXCEPT !.receipt = r] :
                r \in {EmptyReceipt, GarbageReceipt,
                       [p.receipt EXCEPT !.seal = "invalid"],
                       [p.receipt EXCEPT !.image = "another_program"],
                       SerializeReceipt([p.receipt.journal EXCEPT
                                           !.content_hash = Sha256(<<0>>)])}}
        \cup {[p EXCEPT !.version = ""]}
        \cup {[p EXCEPT !.content_selection = ByteRange(1, 0)]}
        \cup {[p EXCEPT !.security_level = 64]}
        \cup {[p EXCEPT !.proof_system = "Other"]}
        \cup {[p EXCEPT !.block_count = 0]}
        \cup {[p EXCEPT !.generation_time_ms = 3600000 + 1]}
        \cup {[p EXCEPT !.proof_size_bytes = 100 * 1024 * 1024 + 1]}

\* ------------------------------------------------------------------------
\* Specifications
\* ------------------------------------------------------------------------
\* the block store and the extractor
Init == StoreIdle(BlockSizes) /\ ProofIdle(DefaultProofConfig, DefaultVerificationConfig)

Next == StoreNext

Spec == Init /\ [][Next]_vars

\* generation with the default configuration, then verification by the
\* generator and by a verifier with the default configuration
AllSelections(bs) == SimpleSelections(bs) \cup ValidSelections(bs)

GenInit ==
    /\ StoreIdle({2, DefaultMaxBlockSize})
    /\ ProofIdle(DefaultProofConfig, DefaultVerificationConfig)

GenNext ==
    \/ /\ CanGenerate
       /\ \E content \in SeqsUpTo(Alphabet, MaxGenLen) :
             \E sel \in AllSelections(create_blocks(content, max_block_size)) :
                 GenerateProof(RegularFile(content), sel, QuickRun)
    \/ /\ CanVerifyProof
       /\ \E claimed \in Claimed(blocks, proof) : VerifyProof(claimed)
    \/ /\ CanVerify
       /\ \E claimed \in Claimed(blocks, proof), now \in BoundaryTimes :
             VerifyDetailed(claimed, now)

GenSpec == GenInit /\ [][GenNext]_vars

\* verification of genuine and forged proofs under every configuration
RuleSets ==
    {<<>>,
     <<MinSecurityLevel("min_security_128", 128)>>,
     <<MinSecurityLevel("min_security_128", 128),
       MinSecurityLevel("min_security_256", 256)>>,
     <<CustomRule("custom", "error")>>}

Configs ==
    {VerificationConfig(strict, steps, DefaultMaxProofAge, md, rules) :
        strict \in BOOLEAN, steps \in BOOLEAN, md \in BOOLEAN, rules \in RuleSets}

VerifyFiles == {<<0, 1>>}

VerifySelections == {Pattern(<<1>>), ByteRange(0, 2), Pattern(<<1, 1>>)}

VerifyInit ==
    /\ StoreIdle({DefaultMaxBlockSize})
    /\ \E vc \in Configs : ProofIdle(DefaultProofConfig, vc)

VerifyNext ==
    \/ /\ CanGenerate
       /\ \E content \in VerifyFiles, sel \in VerifySelections :
             GenerateProof(RegularFile(content), sel, QuickRun)
    \/ \E forged \in Forgeries(genuine) : TamperProof(forged)
    \/ /\ CanVerify
       /\ \E claimed \in Claimed(blocks, genuine), now \in Times :
             VerifyDetailed(claimed, now)

VerifySpec == VerifyInit /\ [][VerifyNext]_vars

\* verification at several ages under several maximum ages
AgeConfigs ==
    {VerificationConfig(TRUE, TRUE, max, TRUE, <<>>) :
        max \in {NoMaxAge, DefaultMaxProofAge, U64Max}}

AgeInit ==
    /\ StoreIdle({DefaultMaxBlockSize})
    /\ \E vc \in AgeConfigs : ProofIdle(DefaultProofConfig, vc)

AgeNext ==
    \/ /\ CanGenerate
       /\ \E content \in VerifyFiles, sel \in VerifySelections :
             GenerateProof(RegularFile(content), sel, QuickRun)
    \/ \E forged \in {[genuine EXCEPT !.version = ""]} : TamperProof(forged)
    \/ /\ CanVerify
       /\ \E claimed \in Claimed(blocks, genuine), now \in Times :
             VerifyDetailed(claimed, now)

AgeSpec == AgeInit /\ [][AgeNext]_vars

\* batches of genuine and forged proofs
BatchConfigs ==
    {VerificationConfig(strict, TRUE, DefaultMaxProofAge, TRUE, rules) :
        strict \in BOOLEAN,
        rules \in {<<>>, <<MinSecurityLevel("min_security_256", 256)>>}}

BatchItems(bs, p) ==
    {Item(q, c) :
        q \in {p, [p EXCEPT !.receipt = GarbageReceipt], [p EXCEPT !.version = ""]},
        c \in {Selected(bs, p), <<>>}}

BatchInit ==
    /\ StoreIdle({DefaultMaxBlockSize})
    /\ \E vc \in BatchConfigs : ProofIdle(DefaultProofConfig, vc)

BatchNext ==
    \/ /\ CanGenerate
       /\ \E content \in VerifyFiles, sel \in VerifySelections :
             GenerateProof(RegularFile(content), sel, QuickRun)
    \/ /\ CanVerify
       /\ \E items \in SeqsUpTo(BatchItems(blocks, proof), MaxBatch) :
             VerifyBatch(items, 0)
    \/ /\ CanVerify
       /\ \E claimed \in Claimed(blocks, proof) : VerifyDetailed(claimed, 0)
    \/ /\ CanVerify
       /\ \E claimed \in Claimed(blocks, proof) : VerifySimple(claimed, 0)

BatchSpec == BatchInit /\ [][BatchNext]_vars

\* generation on every kind of path, with and without a timeout, against a
\* prover that ends well or not, in time or not
ProofConfigs == {DefaultProofConfig, ProofConfig(DefaultSecurityLevel, NoTimeout)}

Paths ==
    {MissingPath, DirectoryPath, OversizeFile}
        \cup {RegularFile(c) : c \in SeqsUpTo(Alphabet, MaxGenLen)}

ProveInit ==
    /\ StoreIdle({2, DefaultMaxBlockSize})
    /\ \E gc \in ProofConfigs : ProofIdle(gc, DefaultVerificationConfig)

ProveNext ==
    \/ /\ CanGenerate
       /\ \E path \in Paths, backend \in BackendOutcomes :
             \E sel \in AllSelections(create_blocks(path.content, max_block_size)) :
                 GenerateProof(path, sel, backend)
    \/ /\ CanVerifyProof
       /\ \E claimed \in Claimed(blocks, proof) : VerifyProof(claimed)

ProveSpec == ProveInit /\ [][ProveNext]_vars

\* the server: requests handled and jobs processed concurrently
JobInit == StoreIdle({DefaultMaxBlockSize}) /\ ProofIdle(DefaultProofConfig, DefaultVerificationConfig)

\* the steps of the handler of request id
HandlerStep(id) ==
    \/ InsertJob(id)
    \/ \E request \in Requests, backend \in JobBackends : SpawnTask(id, request, backend)
    \/ ReturnJobId(id)

\* the steps of the task spawned for request id
TaskStep(id) ==
    \/ StartProcessing(id)
    \/ ParseRequest(id)
    \/ GenerateForJob(id)
    \/ BackendHangs(id)
    \/ FinishJob(id)

JobNext ==
    \/ \E id \in JobIds : HandlerStep(id)
    \/ \E id \in JobIds : TaskStep(id)
    \/ \E id \in 1..(MaxJobs + 1) : GetStatus(id)

JobSpec == JobInit /\ [][JobNext]_vars

\* the server with every spawned task scheduled by the runtime, and no
\* get_status calls
JobLiveNext ==
    \/ \E id \in JobIds : HandlerStep(id)
    \/ \E id \in JobIds : TaskStep(id)

JobLiveSpec ==
    /\ JobInit
    /\ [][JobLiveNext]_vars
    /\ \A id \in JobIds : WF_vars(TaskStep(id))

\* validity of selections of every variant, valid and not, nested or not
PlainSelections ==
    {ByteRange(a, b) : a \in 0..MaxPos, b \in 0..MaxPos}
        \cup {Pattern(c) : c \in SeqsUpTo(Alphabet, 1)}
        \cup {Regex(c) : c \in SeqsUpTo(Alphabet, 1)}

SomeSelections ==
    {ByteRange(0, 1), ByteRange(1, 0), Pattern(<<>>), Pattern(<<0>>), Regex(<<>>),
     Regex(<<1>>)}

Lists == {Multiple(m) : m \in SeqsUpTo(SomeSelections, 2)}

NestedLists == {Multiple(<<m, x>>) : m \in Lists, x \in SomeSelections}

Selections == PlainSelections \cup Lists \cup NestedLists

\* ContentSelection::is_valid on a selection
IsValid(sel) ==
    /\ last' = Op("is_valid", sel, 0 - 1, <<>>,
                  IF is_valid(sel) THEN Ok(<<>>) ELSE Err("invalid", 0 - 1))
    /\ UNCHANGED <<max_block_size, file, blocks, proofVars, serviceVars>>

\* ContentSelection::estimated_size on a selection, in a build
EstimatedSize(sel, build) ==
    /\ last' = Op("estimated_size", sel, 0 - 1, <<>>, estimated_size(sel, build))
    /\ UNCHANGED <<max_block_size, file, blocks, proofVars, serviceVars>>

\* ContentSelection::description on a selection, in a build
Description(sel, build) ==
    /\ last' = Op("description", sel, 0 - 1, <<>>, description(sel, build))
    /\ UNCHANGED <<max_block_size, file, blocks, proofVars, serviceVars>>

SelectionNext ==
    \/ \E sel \in Selections : IsValid(sel)
    \/ \E sel \in Selections, build \in Builds : EstimatedSize(sel, build)
    \/ \E sel \in Selections, build \in Builds : Description(sel, build)

SelectionSpec == Init /\ [][SelectionNext]_vars

\* ------------------------------------------------------------------------
\* Claims
\* ------------------------------------------------------------------------
TheItem == vout.items[1]

TheResult == vout.results[1]

\* C1: reconstruct applied to the blocks process returned for a file yields
\* exactly the bytes of the file (empty, one block, several blocks).
C1_RoundTrip == last.op = "reconstruct" => last.res = Ok(file)

C1_Witness ==
    /\ last.op = "reconstruct"
    /\ Len(blocks) >= 3
    /\ Len(file) % max_block_size # 0
    /\ last.res = Ok(file)

\* C2: extracting a ByteRange{start,end} with start < end <= file length from
\* the blocks process returned yields the file bytes at [start, end), also
\* when the file was split into several blocks.
C2_ExtractsFileBytes ==
    (/\ last.op = "extract"
     /\ last.sel.type = "ByteRange"
     /\ last.sel.start < last.sel.end
     /\ last.sel.end <= Len(file))
    => last.res = Ok(Slice(file, last.sel.start, last.sel.end))

\* the age of the verified proof at the instant of the verification, in whole
\* seconds
Age == num_seconds(vout.now - TheItem.proof.created_at)

C4_ReceiptBinding ==
    (vout.op = "verify_detailed" /\ vout.ok /\ TheResult.is_valid)
    => /\ TheItem.proof.content_hash = TheItem.proof.receipt.journal.content_hash
       /\ TheItem.proof.root_hash = TheItem.proof.receipt.journal.root_hash

\* C5: validate succeeds on the blocks process returned; with the data of one
\* block changed and its id kept, validate fails with that block's index.
C5_Integrity ==
    /\ last.op = "validate" => last.res.ok
    /\ last.op = "validate_tampered"
       => /\ ~last.res.ok
          /\ last.res.err = "block_validation"
          /\ last.res.index = last.index

C5_Witness ==
    /\ last.op = "validate_tampered"
    /\ last.index = 2
    /\ ~last.res.ok
    /\ last.res.index = 2

Passed(name) == VerificationStep(name, TRUE)

Failed(name) == VerificationStep(name, FALSE)

\* the proof at hand is the generated proof with another content_hash
ContentHashReplaced ==
    /\ TheItem.proof # genuine
    /\ TheItem.proof = [genuine EXCEPT !.content_hash = TheItem.proof.content_hash]

\* verify_detailed accepts the generated proof with the claimed content
GenuineVerifies ==
    LET r == verify_detailed(vconfig, genuine, TheItem.claimed, vout.now)
    IN  r.ok /\ r.is_valid

\* C6: for a proof that verifies with claimed content c, replacing
\* proof.content_hash by another value makes the content-hash stage fail and
\* the result invalid, with the structure and cryptographic stages recorded as
\* passed (in the steps of the result when steps are included).
C6_TamperDetection ==
    (vout.op = "verify_detailed" /\ ContentHashReplaced /\ GenuineVerifies)
    => /\ vout.ok
       /\ ~TheResult.is_valid
       /\ TheResult.recorded = <<Passed("Proof Structure Validation"),
                                 Passed("Cryptographic Proof Verification"),
                                 Failed("Content Hash Verification")>>
       /\ vconfig.include_verification_steps
          => TheResult.verification_steps = TheResult.recorded

C6_Witness ==
    /\ vout.op = "verify_detailed"
    /\ ContentHashReplaced
    /\ GenuineVerifies
    /\ vconfig.include_verification_steps
    /\ ~TheResult.is_valid
    /\ Len(TheResult.verification_steps) = 3

\* the stages of the pipeline, in order, and what each decides on the verified
\* proof (stated from the proof's fields, not from the verifier's functions)
StageOrder ==
    <<"Proof Structure Validation", "Cryptographic Proof Verification",
      "Content Hash Verification", "Metadata Verification",
      "Custom Rules Verification">>

StructureFails ==
    \/ TheItem.proof.version = ""
    \/ /\ vconfig.max_proof_age_seconds # NoMaxAge
       /\ Age > as_i64(vconfig.max_proof_age_seconds)
    \/ TheItem.proof.receipt.kind = "empty"
    \/ ~is_valid(TheItem.proof.content_selection)

CryptoFails ==
    \/ TheItem.proof.receipt.kind # "receipt"
    \/ TheItem.proof.receipt.seal # "valid"
    \/ TheItem.proof.receipt.image # IPFS_CONTENT_VERIFIER_ID

ContentFails == Sha256(TheItem.claimed) # TheItem.proof.content_hash

\* the first of the three terminal stages that fails, 0 if none does
FirstFailing ==
    IF StructureFails THEN 1 ELSE IF CryptoFails THEN 2 ELSE IF ContentFails THEN 3
    ELSE 0

StageIndex(name) == CHOOSE k \in 1..5 : StageOrder[k] = name

\* the recorded steps are stages of the pipeline in increasing order, the
\* first three of them without a gap
InOrder(steps) ==
    /\ Len(steps) >= 1
    /\ \A i \in 1..Len(steps) : \E k \in 1..5 : StageOrder[k] = steps[i].name
    /\ \A i \in 1..Len(steps) : i <= 3 => steps[i].name = StageOrder[i]
    /\ \A i \in 1..Len(steps), j \in 1..Len(steps) :
          i < j => StageIndex(steps[i].name) < StageIndex(steps[j].name)

\* C7: verify_detailed runs its stages in the fixed order, and when the
\* structure, cryptographic or content-hash stage fails the result has
\* is_valid = false with the failing stage as the last one recorded, in strict
\* and in lenient mode alike.
C7_StageOrder ==
    vout.op = "verify_detailed"
    => /\ vout.ok
       /\ InOrder(TheResult.recorded)
       /\ FirstFailing # 0
          => /\ ~TheResult.is_valid
             /\ Len(TheResult.recorded) = FirstFailing
             /\ ~TheResult.recorded[FirstFailing].passed
             /\ \A i \in 1..(FirstFailing - 1) : TheResult.recorded[i].passed

\* what a rule demands of a proof, stated from the rule's meaning
RuleHolds(rule, p) ==
    CASE rule.rule_type = "MinSecurityLevel" -> ~(p.security_level < rule.level)
      [] rule.rule_type = "MaxProofSize" -> ~(p.proof_size_bytes > rule.size)
      [] rule.rule_type = "RequiredProofSystem" -> p.proof_system = rule.system
      [] rule.rule_type = "Custom" -> rule.custom = "true"

SomeRuleFails ==
    \E i \in 1..Len(vconfig.custom_rules) :
        ~RuleHolds(vconfig.custom_rules[i], TheItem.proof)

MetadataFails ==
    \/ TheItem.proof.security_level < 128
    \/ TheItem.proof.proof_system # "Risc0"
    \/ TheItem.proof.block_count = 0

\* the custom-rules stage is reached: rules are configured, and no earlier
\* stage has ended the verification
RulesReached ==
    /\ vout.op = "verify_detailed"
    /\ Len(vconfig.custom_rules) # 0
    /\ FirstFailing = 0
    /\ ~(vconfig.verify_metadata /\ vconfig.strict_verification /\ MetadataFails)

RuleWarnings == {i \in 1..Len(TheResult.warnings) : TheResult.warnings[i].rule # ""}

\* C8: when the earlier stages pass and a configured rule fails, the result is
\* invalid under strict mode, and valid with a non-empty warnings list under
\* lenient mode; when every rule passes the rules add no warning.
C8_CustomRules ==
    RulesReached
    => /\ vout.ok
       /\ (SomeRuleFails /\ vconfig.strict_verification) => ~TheResult.is_valid
       /\ (SomeRuleFails /\ ~vconfig.strict_verification)
          => TheResult.is_valid /\ RuleWarnings # {}
       /\ ~SomeRuleFails => TheResult.is_valid /\ RuleWarnings = {}

C8_Witness ==
    /\ RulesReached
    /\ ~vconfig.strict_verification
    /\ TheItem.proof.security_level = 128
    /\ \E i \in 1..Len(vconfig.custom_rules) :
          /\ vconfig.custom_rules[i].rule_type = "MinSecurityLevel"
          /\ vconfig.custom_rules[i].level = 256
    /\ TheResult.is_valid
    /\ Len(TheResult.warnings) > 0

\* C9: verify_batch returns one result per pair, in input order, each with the
\* is_valid, warnings and steps verify_detailed gives for that pair alone,
\* whatever the other pairs are.
C9_BatchDeterminism ==
    vout.op = "verify_batch"
    => /\ vout.ok
       /\ Len(vout.results) = Len(vout.items)
       /\ \A i \in 1..Len(vout.items) :
             LET alone == verify_detailed(vconfig, vout.items[i].proof,
                                          vout.items[i].claimed, vout.now)
             IN  alone.ok
                 => /\ vout.results[i].is_valid = alone.is_valid
                    /\ vout.results[i].warnings = alone.warnings
                    /\ vout.results[i].verification_steps = alone.verification_steps

\* C10: for a proof that is structurally or cryptographically invalid,
\* also one whose receipt cannot be decoded or does not verify,
\* verify_detailed returns a result with is_valid = false, not an error.
C10_NeverAnError ==
    (vout.op = "verify_detailed" /\ (StructureFails \/ CryptoFails))
    => /\ vout.ok
       /\ ~TheResult.is_valid

\* the prover was called by the last generate_proof call
ProverCalled == \E i \in 1..Len(gcall.work) : gcall.work[i] = "prove"

\* the prover call of the last generate_proof ran longer than the timeout
RanOverTimeout ==
    /\ vout.op = "generate"
    /\ ProverCalled
    /\ gconfig.timeout_seconds # NoTimeout
    /\ gcall.backend.seconds > gconfig.timeout_seconds

\* C11: when a timeout is configured and the prover call runs longer than
\* it, generate_proof returns a timeout error and no proof.
C11_Timeout ==
    RanOverTimeout => (~vout.ok /\ vout.err = "timeout" /\ genuine = NoProof)

\* the inputs of the last generate_proof call do not pass validation: no
\* regular file, a file above the size cap, or an invalid selection
OverSizeCap(path) ==
    \/ path.size_gib > MaxFileSizeGiB
    \/ path.size_gib = MaxFileSizeGiB /\ path.size_rest > 0

InvalidInputs ==
    \/ gcall.path.kind # "file"
    \/ OverSizeCap(gcall.path)
    \/ ~is_valid(gcall.sel)

\* the selection of the last generate_proof call selects nothing in the file
ExtractionFails ==
    ~extract_content(create_blocks(gcall.path.content, max_block_size), gcall.sel).ok

IsPrefix(s, t) == Len(s) <= Len(t) /\ \A i \in 1..Len(s) : s[i] = t[i]

\* C12: generate_proof validates its inputs before the file is read and
\* chunked, and never calls the prover when validation or content extraction
\* fails.
C12_FailFast ==
    vout.op = "generate"
    => /\ IsPrefix(gcall.work, <<"read", "chunk", "extract", "prove">>)
       /\ InvalidInputs => (~vout.ok /\ gcall.work = <<>>)
       /\ (~InvalidInputs /\ ExtractionFails) => (~vout.ok /\ ~ProverCalled)

C12_Witness ==
    /\ vout.op = "generate"
    /\ gcall.sel.type = "Pattern"
    /\ ~InvalidInputs
    /\ ExtractionFails
    /\ ~vout.ok
    /\ gcall.work = <<"read", "chunk", "extract">>

\* C13: extract with ByteRange{start, end} returns an error whenever the total
\* length of all blocks is <= start or < end.
C13_RangeBeyondData ==
    (/\ last.op = "extract"
     /\ last.sel.type = "ByteRange"
     /\ \/ TotalLenOf(blocks) <= last.sel.start
        \/ TotalLenOf(blocks) < last.sel.end)
    => ~last.res.ok

\* the data of all blocks, one after the other
AllData == ConcatData(blocks, 1)

\* the pattern occurs at offset i of the data
OccursAt(data, pattern, i) ==
    /\ i + Len(pattern) <= Len(data)
    /\ \A k \in 1..Len(pattern) : data[i + k] = pattern[k]

Occurs(data, pattern) ==
    /\ Len(pattern) > 0
    /\ \E i \in 0..Len(data) : OccursAt(data, pattern, i)

\* C14: extract with Pattern{bytes} returns exactly the pattern bytes when the
\* pattern occurs in the concatenation of all block data (also across a block
\* boundary), and a content-selection error when it does not occur, is empty
\* or is longer than the data.
C14_Pattern ==
    /\ extract_content(blocks, Pattern(<<>>)) = Err("content_selection", 0 - 1)
    /\ (last.op = "extract" /\ last.sel.type = "Pattern")
       => IF Occurs(AllData, last.sel.content)
          THEN last.res = Ok(last.sel.content)
          ELSE last.res = Err("content_selection", 0 - 1)

C14_Witness ==
    /\ last.op = "extract"
    /\ last.sel.type = "Pattern"
    /\ Len(blocks) >= 3
    /\ Occurs(AllData, last.sel.content)
    /\ \A i \in 1..Len(blocks) : ~Occurs(blocks[i].data, last.sel.content)
    /\ last.res = Ok(last.sel.content)

\* the bytes of the members of a Multiple selection, one after the other,
\* each extracted on its own
RECURSIVE MemberBytes(_, _)
MemberBytes(bs, members) ==
    IF Len(members) = 0 THEN <<>>
    ELSE extract_content(bs, Head(members)).bytes \o MemberBytes(bs, Tail(members))

MembersOk(bs, members) ==
    \A i \in 1..Len(members) : extract_content(bs, members[i]).ok

\* C15: extract with Multiple(list) returns the members' bytes concatenated in
\* list order and fails if a member fails, and the content hash of a Multiple
\* selection, on the host and in the circuit, is the hash of that byte string.
C15_Multiple ==
    /\ (last.op = "extract" /\ last.sel.type = "Multiple")
       => IF MembersOk(blocks, last.sel.members)
          THEN /\ last.res = Ok(MemberBytes(blocks, last.sel.members))
               /\ extract_content_hash(blocks, last.sel)
                     = Ok(Sha256(MemberBytes(blocks, last.sel.members)))
          ELSE ~last.res.ok
    /\ (/\ last.op = "extract_and_prove"
        /\ last.sel.type = "Multiple"
        /\ MembersOk(blocks, last.sel.members))
       => last.res = Ok(Sha256(MemberBytes(blocks, last.sel.members)))

\* the block set the last reconstruct_from call was given
GivenBlocks == Arranged(blocks, last.data)

\* every link of the root block names a block of the given set
AllLinksMatched ==
    \A i \in 1..Len(blocks[1].links) :
        \E j \in 1..Len(GivenBlocks) : GivenBlocks[j].cid = blocks[1].links[i].cid

\* the data of the chunk link i of the root was made for (chunk_<i-1>), for
\* every link in link order
RECURSIVE LinkedData(_, _)
LinkedData(bs, i) ==
    IF i > Len(bs[1].links) THEN <<>>
    ELSE bs[i + 1].data \o LinkedData(bs, i + 1)

\* C16: reconstruct on a set of two or more blocks whose first block is a root
\* with links returns the linked chunks' data in link order, whatever the order
\* of the other blocks in the set.
C16_LinkOrder ==
    (last.op = "reconstruct_from" /\ Len(GivenBlocks) >= 2 /\ AllLinksMatched)
    => last.res = Ok(LinkedData(blocks, 1))

C16_Witness ==
    /\ last.op = "reconstruct_from"
    /\ Len(last.data) >= 2
    /\ last.data[1] > last.data[2]
    /\ blocks[last.data[1]].data # blocks[last.data[2]].data
    /\ AllLinksMatched
    /\ last.res = Ok(file)

\* C17: reconstruct returns an IPFS error whenever a link of the root block
\* names a block that is not in the set, and no content.
C17_MissingLink ==
    (last.op = "reconstruct_from" /\ ~AllLinksMatched)
    => (~last.res.ok /\ last.res.err = "content_reconstruction")

\* C18: every block of the list process returned has data no larger than the
\* configured maximum block size.
C18_BlockSize ==
    last.op = "process"
    => \A i \in 1..Len(blocks) : Len(blocks[i].data) <= max_block_size

\* the number of chunks of a file of the given length
ChunkCount(len, size) == (len + size - 1) \div size

\* the number a little-endian byte string stands for
RECURSIVE FromLe(_)
FromLe(bytes) == IF Len(bytes) = 0 THEN 0 ELSE Head(bytes) + 256 * FromLe(Tail(bytes))

\* the offset in the root data of the entry of chunk i: the entries of the
\* chunks before it, each an id and 8 bytes
RECURSIVE EntryOffset(_, _)
EntryOffset(bs, i) ==
    IF i <= 1 THEN 0 ELSE EntryOffset(bs, i - 1) + Len(bs[i].cid) + 8

\* the root data holds, as the entry of chunk i, the chunk's id and then its
\* data length as 8 little-endian bytes
RootEncodes(bs, i) ==
    LET chunk == bs[i + 1]
        at == EntryOffset(bs, i)
        mid == at + Len(chunk.cid)
    IN  /\ Slice(bs[1].data, at, mid) = chunk.cid
        /\ FromLe(Slice(bs[1].data, mid, mid + 8)) = Len(chunk.data)

\* C19: process returns no root block for a file of at most one chunk, and
\* its block, if any, has no links; for a file of n > 1 chunks it returns n+1
\* blocks, block 0 being the root whose links chunk_0 .. chunk_{n-1} carry the
\* chunks' ids and data lengths in chunk order, and whose data encodes them.
C19_RootBlock ==
    last.op = "process"
    => LET n == ChunkCount(Len(file), max_block_size)
       IN  IF n <= 1
           THEN /\ Len(blocks) = n
                /\ \A i \in 1..Len(blocks) :
                      blocks[i].links = <<>> /\ blocks[i].data = file
           ELSE /\ Len(blocks) = n + 1
                /\ Len(blocks[1].links) = n
                /\ \A i \in 1..n :
                      /\ blocks[1].links[i].name = ChunkName(i - 1)
                      /\ blocks[1].links[i].cid = blocks[i + 1].cid
                      /\ blocks[1].links[i].size = Len(blocks[i + 1].data)
                      /\ blocks[i + 1].links = <<>>
                      /\ blocks[i + 1].data =
                            Slice(file, (i - 1) * max_block_size,
                                  Min(i * max_block_size, Len(file)))
                /\ \A i \in 1..n : RootEncodes(blocks, i)
                /\ Len(blocks[1].data) = EntryOffset(blocks, n + 1)

C19_Witness ==
    /\ last.op = "process"
    /\ Len(blocks) = 3
    /\ Len(blocks[1].links) = 2
    /\ blocks[1].links[2].name = ChunkName(1)
    /\ Len(blocks[3].data) < Len(blocks[2].data)

\* validity of a selection, from its meaning
RECURSIVE WellFormed(_)
WellFormed(sel) ==
    IF sel.type = "ByteRange" THEN sel.start < sel.end
    ELSE IF sel.type = "Multiple"
    THEN Len(sel.members) > 0 /\ \A i \in 1..Len(sel.members) : WellFormed(sel.members[i])
    ELSE sel.content # <<>>

\* C20: is_valid is true for ByteRange exactly when start < end, for Pattern
\* and Regex exactly when the bytes or the pattern string are non-empty, and
\* for Multiple exactly when the list is non-empty and every member is valid.
C20_Validity == last.op = "is_valid" => (last.res.ok <=> WellFormed(last.sel))

C20_Witness ==
    /\ last.op = "is_valid"
    /\ last.sel.type = "Multiple"
    /\ Len(last.sel.members) = 2
    /\ last.sel.members[1].type = "Multiple"
    /\ WellFormed(last.sel.members[1])
    /\ ~WellFormed(last.sel.members[2])
    /\ ~last.res.ok

\* C21: is_valid, estimated_size and description return a value for every
\* selection, without aborting and without wrapping around.
C21_Total ==
    last.op \in {"estimated_size", "description"}
    => (last.res.outcome # "panic" /\ ~last.res.wrapped)

\* the metadata stage is reached: the three terminal stages pass
MetadataReached == vout.op = "verify_detailed" /\ FirstFailing = 0

Warned(msg) ==
    \E i \in 1..Len(TheResult.warnings) : TheResult.warnings[i] = Warning(msg, "")

SlowOrLarge ==
    \/ TheItem.proof.generation_time_ms > 3600000
    \/ TheItem.proof.proof_size_bytes > 100 * 1024 * 1024

\* C22: with metadata verification enabled and the first three stages
\* passed, a security level below 128, an unexpected proof system or a block
\* count of zero each add a warning and make the result invalid under strict
\* mode and leave it valid under lenient mode; a generation time or a proof
\* size out of bounds adds a warning and never makes the result invalid; with
\* metadata verification disabled there is no metadata step and no warning.
C22_MetadataPolicy ==
    MetadataReached
    => /\ vout.ok
       /\ vconfig.verify_metadata
          => /\ TheItem.proof.security_level < 128
                => Warned("Security level below recommended minimum (128 bits)")
             /\ TheItem.proof.proof_system # "Risc0" => Warned("Unexpected proof system")
             /\ TheItem.proof.block_count = 0 => Warned("No IPFS blocks in file info")
             /\ TheItem.proof.generation_time_ms > 3600000
                => Warned("Unusually long proof generation time")
             /\ TheItem.proof.proof_size_bytes > 100 * 1024 * 1024
                => Warned("Unusually large proof size")
             /\ (MetadataFails /\ vconfig.strict_verification) => ~TheResult.is_valid
             /\ (MetadataFails /\ ~vconfig.strict_verification) => TheResult.is_valid
             /\ (~MetadataFails /\ ~(vconfig.strict_verification /\ SomeRuleFails))
                => TheResult.is_valid
             /\ (~MetadataFails /\ ~SlowOrLarge) => RuleWarnings = DOMAIN TheResult.warnings
       /\ ~vconfig.verify_metadata
          => /\ \A i \in 1..Len(TheResult.recorded) :
                   TheResult.recorded[i].name # "Metadata Verification"
             /\ RuleWarnings = DOMAIN TheResult.warnings

\* a strict verifier reaches the metadata stage on a large proof and accepts
\* it with a warning
C22_Witness ==
    /\ MetadataReached
    /\ vconfig.verify_metadata
    /\ vconfig.strict_verification
    /\ SlowOrLarge
    /\ TheResult.is_valid
    /\ Len(TheResult.warnings) = 1

\* the age of the verified proof exceeds the configured maximum
TooOld ==
    /\ vconfig.max_proof_age_seconds >= 0
    /\ vout.now - TheItem.proof.created_at
         > vconfig.max_proof_age_seconds * TicksPerSecond

\* the structure stage fails the proof for another reason than its age
MalformedProof ==
    \/ TheItem.proof.version = ""
    \/ TheItem.proof.receipt.kind = "empty"
    \/ ~is_valid(TheItem.proof.content_selection)

StructureStep == TheResult.recorded[1]

\* C23: the structure stage fails every proof whose age exceeds the
\* configured maximum, does not fail on age a proof whose age is at most the
\* maximum, and checks no age when the maximum is unset.
C23_ProofAge ==
    (vout.op = "verify_detailed" /\ vout.ok)
    => /\ TooOld => ~StructureStep.passed
       /\ (~TooOld /\ ~MalformedProof) => StructureStep.passed

\* the input the host prepares for the guest once extract_content has
\* succeeded on the blocks and the selection
PreparedInput ==
    [blocks |-> blocks, content_selection |-> last.sel,
     expected_content_hash |-> Sha256(last.res.bytes)]

\* C24: for every block list and every valid selection on which the host's
\* extract_content succeeds, the proving guest's extract_content returns the
\* same bytes, and the guest does not reject the input the host prepared.
C24_HostGuestAgreement ==
    (last.op = "extract" /\ is_valid(last.sel) /\ last.res.ok)
    => /\ guest_extract_content(blocks, guest_read_selection(last.sel)) = last.res
       /\ guest_main(PreparedInput).ok

\* the offset of block i in the data of all blocks
RECURSIVE BlockOffset(_)
BlockOffset(i) == IF i = 1 THEN 0 ELSE BlockOffset(i - 1) + Len(blocks[i - 1].data)

\* the blocks whose byte span overlaps the span [pos, pos + len)
Overlapping(pos, len) ==
    {i \in 1..Len(blocks) :
        /\ BlockOffset(i) < pos + len
        /\ BlockOffset(i) + Len(blocks[i].data) > pos}

FirstMatch == find_pattern(AllData, last.sel.content)

MatchedHashes ==
    {Sha256(blocks[i].data) : i \in Overlapping(FirstMatch, Len(last.sel.content))}

\* C25: the inclusion set of a Pattern selection holds the hash of every block
\* that overlaps the span of the first match, a match that straddles block
\* boundaries included, and of no other block.
C25_PatternInclusion ==
    (last.op = "extract_and_prove" /\ last.sel.type = "Pattern" /\ last.res.ok)
    => /\ {last.data[i] : i \in 1..Len(last.data)} = MatchedHashes
       /\ LET journal == guest_main([blocks |-> blocks, content_selection |-> last.sel,
                                     expected_content_hash |-> last.res.bytes]).journal
          IN  {journal.inclusion_proof[i] : i \in 1..Len(journal.inclusion_proof)}
                = MatchedHashes

VerifyOps == {"verify_detailed", "verify_simple", "verify_batch"}

\* the results with is_valid = valid among the results a call returned
ResultsWith(results, valid) == {i \in 1..Len(results) : results[i].is_valid = valid}

\* C26: every call of verify_detailed, verify_simple and verify_batch adds the
\* number of results it returns to total_verifications, the numbers of those
\* with is_valid = true and false to successful_verifications and
\* failed_verifications, and total_verifications = successful_verifications +
\* failed_verifications.
C26_Statistics ==
    [][vout'.op \in VerifyOps
       => /\ vstats'.total_verifications
               = vstats.total_verifications + Len(vout'.results)
          /\ vstats'.successful_verifications
               = vstats.successful_verifications
                   + Cardinality(ResultsWith(vout'.results, TRUE))
          /\ vstats'.failed_verifications
               = vstats.failed_verifications
                   + Cardinality(ResultsWith(vout'.results, FALSE))
          /\ vstats'.total_verifications
               = vstats'.successful_verifications + vstats'.failed_verifications]_vars

\* C27: a generate_proof call that fails leaves every counter of the
\* generator's statistics unchanged; a call that succeeds adds one to
\* total_proofs_generated and the size of the processed file to
\* total_data_processed_bytes.
C27_GeneratorStatistics ==
    [][(gcall = NoCall /\ gcall' # NoCall)
       => IF vout'.ok
          THEN /\ gstats'.total_proofs_generated = gstats.total_proofs_generated + 1
               /\ gstats'.total_data_processed_bytes
                    = gstats.total_data_processed_bytes + Len(gcall'.path.content)
               /\ gstats'.total_proofs_verified = gstats.total_proofs_verified
          ELSE gstats' = gstats]_vars

\* a file of two bytes or more has been proved and counted
C27_Witness ==
    /\ vout.op = "generate"
    /\ vout.ok
    /\ Len(gcall.path.content) >= 2
    /\ gstats.total_proofs_generated = 1
    /\ gstats.total_data_processed_bytes = Len(gcall.path.content)

\* the moves of a job's status
StatusMoves ==
    {<<"Pending", "Processing">>, <<"Processing", "Completed">>,
     <<"Processing", "Failed">>}

Terminal(id) ==
    /\ id \in DOMAIN jobs
    /\ jobs[id].status.status \in {"Completed", "Failed"}

\* C28: a job is in the map from the moment its id is returned; its status
\* only moves Pending -> Processing -> Completed or Failed; a Completed or
\* Failed status never changes again; a step changes the entry of one job at
\* most.
C28_JobStatus ==
    [][/\ \A id \in JobIds : tasks'[id].handler = "returned" => id \in DOMAIN jobs'
       /\ \A id \in DOMAIN jobs :
            /\ id \in DOMAIN jobs'
            /\ \/ jobs'[id] = jobs[id]
               \/ /\ <<jobs[id].status.status, jobs'[id].status.status>> \in StatusMoves
                  /\ jobs'[id].id = jobs[id].id
            /\ Terminal(id) => jobs'[id] = jobs[id]
       /\ \A id, other \in DOMAIN jobs :
            (id # other /\ jobs'[id] # jobs[id]) => jobs'[other] = jobs[other]
       /\ \A id \in DOMAIN jobs' \ DOMAIN jobs : \A other \in DOMAIN jobs :
            jobs'[other] = jobs[other]]_vars

\* two jobs at once: one has failed while the other is being processed, and
\* the caller of the second has its id
C28_Witness ==
    /\ DOMAIN jobs = {1, 2}
    /\ jobs[1].status.status = "Failed"
    /\ jobs[2].status.status = "Processing"
    /\ tasks[2].handler = "returned"

\* C29: every submitted job eventually reaches Completed or Failed, when the
\* spawned task is scheduled and the call of the proving backend returns.
C29_JobCompletion ==
    \A id \in JobIds :
        (tasks[id].handler = "returned") ~> (Terminal(id) \/ tasks[id].task = "hung")

\* a job is completed with a proof
C29_Witness ==
    /\ 1 \in DOMAIN jobs
    /\ jobs[1].status = JobCompleted("proof")
    /\ tasks[1].task = "done"

\* ---- the cache manager on its own ----

CacheInit == StoreIdle({DefaultMaxBlockSize}) /\ ProofIdle(DefaultProofConfig, DefaultVerificationConfig)

CacheNext ==
    \/ \E key \in CacheKeys, size \in EntrySizes :
         \E order \in EvictionOrders(cache.memory_cache) : Store(key, size, order)
    \/ \E key \in CacheKeys : Retrieve(key)
    \/ \E key \in CacheKeys : Remove(key)
    \/ Clear
    \/ Cleanup
    \/ CacheTick

CacheSpec == CacheInit /\ [][CacheNext]_vars

\* C30: after any sequence of store, retrieve, remove, cleanup and clear,
\* stats.memory_cache_bytes is the sum of size_bytes over the entries of the
\* memory cache
C30_ByteAccounting == cache.memory_cache_bytes = SumEntrySizes(cache.memory_cache)

=============================================================================
